---- MODULE Spec2Model ----
(***************************************************************************)
(* The deterministic conceptual-blending engine of sv_blend/blend.py.     *)
(*                                                                         *)
(* Representation.                                                         *)
(*   str            a TLA+ string; Optional[str] None is the value None    *)
(*   list / tuple   a sequence                                             *)
(*   set            a set                                                  *)
(*   dict           a function on its keys when only lookups matter        *)
(*                  (scoring tables, frame_overrides, cost adjust), a      *)
(*                  sequence of entries in insertion order when the code   *)
(*                  iterates it (poles, polar_conflicts)                   *)
(*   Optional[int]  <<>> for None, <<n>> for n                             *)
(*   "l<->r" keys   the pair <<l, r>>                                      *)
(*   pole value     the sequence of its characters                         *)
(*   float          exact fixed point: weights, costs and the threshold in *)
(*                  units of 1/WeightOne, metrics in units of 1/MetricOne, *)
(*                  scores (weight * metric) in units of 1/ScoreOne        *)
(***************************************************************************)
EXTENDS Integers, Sequences, FiniteSets, TLC

VARIABLES active, rules, pc, locals, result, prev, calls

vars == <<active, rules, pc, locals, result, prev, calls>>

(***************************************************************************)
(* Generic helpers                                                         *)
(***************************************************************************)
Range(s) == {s[i] : i \in 1..Len(s)}

Max(a, b) == IF a >= b THEN a ELSE b

Min(a, b) == IF a <= b THEN a ELSE b

RECURSIVE SumSeq(_)
SumSeq(s) == IF s = <<>> THEN 0 ELSE s[1] + SumSeq(Tail(s))

None == "<None>"

\* Truthiness of an Optional[str]: None and "" are falsy.
TruthyStr(s) == s # None /\ s # ""

\* `a or b` on an Optional[int]: None and 0 are falsy.
OrInt(opt, default) == IF opt # <<>> /\ opt[1] # 0 THEN opt[1] ELSE default

\* dict.get(key, default)
Get(table, key, default) == IF key \in DOMAIN table THEN table[key] ELSE default

(***************************************************************************)
(* Fixed point                                                             *)
(***************************************************************************)
WeightOne == 100 * 1000

MetricOne == 6 * 10

ScoreOne == WeightOne * MetricOne

\* round(x / d) to the nearest integer, ties to even (Python's round).
RoundDiv(x, d) ==
    LET q == x \div d
        r == x % d
    IN  IF 2 * r < d THEN q
        ELSE IF 2 * r > d THEN q + 1
        ELSE IF q % 2 = 0 THEN q ELSE q + 1

\* round(value, 4) of a weight, a metric and a score, in units of 1/10000.
round4_weight(w) == RoundDiv(w * 10000, WeightOne)

round4_metric(m) == RoundDiv(m * 10000, MetricOne)

round4_score(s) == RoundDiv(s, ScoreOne \div 10000)

(***************************************************************************)
(* blend.py                                                                *)
(***************************************************************************)
ROLE_LIKE ==
    {"agent", "boundary", "goal", "path", "traveler", "crosser", "seer",
     "holder", "target"}

\* tuple(dict.fromkeys(s)): first occurrences, in order.
RECURSIVE fromkeys(_)
fromkeys(s) ==
    IF s = <<>> THEN <<>>
    ELSE LET init == fromkeys(SubSeq(s, 1, Len(s) - 1))
             last == s[Len(s)]
         IN  IF last \in Range(init) THEN init ELSE Append(init, last)

\* Deduplication that keeps the last occurrence of each item instead.
RECURSIVE keep_last(_)
keep_last(s) ==
    IF s = <<>> THEN <<>>
    ELSE IF s[1] \in Range(Tail(s)) THEN keep_last(Tail(s))
    ELSE <<s[1]>> \o keep_last(Tail(s))

dedupe_keep_last(items) == keep_last(SelectSeq(items, LAMBDA item : item # ""))

dedupe_preserve(items) == fromkeys(SelectSeq(items, LAMBDA item : item # ""))

\* The characters the pattern [\s,|]+ matches.
Separators == {" ", ",", "|"}

\* re.split(r"[\s,|]+", value), scanning from character i with the piece
\* `cur` under construction: a run of separators ends one piece.
RECURSIVE re_split(_, _, _)
re_split(value, i, cur) ==
    IF i > Len(value) THEN <<cur>>
    ELSE IF value[i] \in Separators
         THEN IF i > 1 /\ value[i - 1] \in Separators
              THEN re_split(value, i + 1, cur)
              ELSE <<cur>> \o re_split(value, i + 1, "")
         ELSE re_split(value, i + 1, cur \o value[i])

\* The split without the deduplication of its tokens.
split_pole_values_all(value) ==
    SelectSeq(re_split(value, 1, ""), LAMBDA token : token # "")

\* A piece holds no separator, so no white space: token.strip() drops
\* exactly the empty pieces.
split_pole_values(value) ==
    fromkeys(SelectSeq(re_split(value, 1, ""), LAMBDA token : token # ""))

composite(axis, part) == axis \o ":" \o part

RECURSIVE part_tokens(_, _)
part_tokens(axis, parts) ==
    IF parts = <<>> THEN <<>>
    ELSE <<parts[1], composite(axis, parts[1])>> \o part_tokens(axis, Tail(parts))

RECURSIVE axis_tokens_all(_)
axis_tokens_all(poles) ==
    IF poles = <<>> THEN <<>>
    ELSE <<poles[1].axis>>
         \o part_tokens(poles[1].axis, split_pole_values(poles[1].value))
         \o axis_tokens_all(Tail(poles))

axis_tokens(poles) == fromkeys(axis_tokens_all(poles))

\* Keys of a dict kept as a sequence of [axis, ...] entries.
Axes(entries) == {entries[i].axis : i \in 1..Len(entries)}

Space(label, schemas, metaphors, poles, gates, frame_id) ==
    [label |-> label, schemas |-> schemas, metaphors |-> metaphors,
     poles |-> poles, gates |-> gates, frame_id |-> frame_id]

build_spaces(act) ==
    [a |-> Space("input_a", dedupe_preserve(act.schemas), <<>>, <<>>,
                 dedupe_preserve(act.gates), act.frame_id),
     b |-> Space("input_b", <<>>, dedupe_preserve(act.metaphors), act.poles,
                 <<>>, None)]

FrameOverride(frame_id) ==
    [frame_id |-> frame_id,
     disallowed_operators |-> <<>>,
     operator_whitelist |-> <<>>,
     prefer_relations |-> <<>>,
     max_ops_per_blend |-> <<>>,
     operator_cost_adjust |-> <<>>]

ensure_override(frame_id, rb) ==
    IF frame_id = None THEN FrameOverride(None)
    ELSE IF frame_id \notin DOMAIN rb.frame_overrides THEN FrameOverride(frame_id)
    ELSE LET override == rb.frame_overrides[frame_id]
         IN  IF override.frame_id = None
             THEN [override EXCEPT !.frame_id = frame_id]
             ELSE override

\* rules.frame_overrides after _ensure_override, had it assigned
\* override.frame_id on the entry itself.
overrides_written_in_place(frame_id, rb) ==
    IF /\ frame_id # None
       /\ frame_id \in DOMAIN rb.frame_overrides
       /\ rb.frame_overrides[frame_id].frame_id = None
    THEN [rb.frame_overrides EXCEPT ![frame_id].frame_id = frame_id]
    ELSE rb.frame_overrides

\* rules.frame_overrides after _ensure_override: model_copy(update=...) builds
\* a new FrameOverride and the entry of the rulebook is not written.
overrides_after(frame_id, rb) == rb.frame_overrides

\* The selection after build_spaces: the spaces hold new tuples and
\* dict(active.poles), and nothing is written to the selection.
selection_after(act) == act

\* Code-point order of the operator ids, for the last component of a ranking.
OperatorIdOrder == <<"completion", "composition", "elaboration", "projection">>

str_rank(id) == CHOOSE i \in 1..Len(OperatorIdOrder) : OperatorIdOrder[i] = id

\* The letters pole values are written with, and the values' length.
Letters == {"c", "r"}

MaxValueLen == 3

RECURSIVE Words(_)
Words(n) ==
    IF n = 0 THEN {""}
    ELSE LET shorter == Words(n - 1)
         IN  shorter \cup {w \o l : w \in shorter, l \in Letters}

AxisIds == {"raw_cooked", "hot_cold"}

\* ":" in s, for the strings of the model: the axis composites.
contains_colon(s) ==
    \E axis \in AxisIds, part \in Words(MaxValueLen) \ {""} : s = composite(axis, part)

\* What indexing an empty list gives: the call ends with this exception.
IndexError == "<IndexError>"

\* _relation_for without the `if priority` guard of its last line.
relation_for_unguarded(left, right, priority) ==
    IF (left \in ROLE_LIKE \/ right \in ROLE_LIKE) /\ "role" \in Range(priority)
    THEN "role"
    ELSE IF left = right /\ "identity" \in Range(priority) THEN "identity"
    ELSE IF contains_colon(right) /\ "analogy" \in Range(priority) THEN "analogy"
    ELSE IF priority # <<>> THEN priority[1] ELSE IndexError

\* _relation_for with the identity test put before the role test.
relation_for_identity_first(left, right, priority) ==
    IF left = right /\ "identity" \in Range(priority) THEN "identity"
    ELSE IF (left \in ROLE_LIKE \/ right \in ROLE_LIKE) /\ "role" \in Range(priority)
    THEN "role"
    ELSE IF contains_colon(right) /\ "analogy" \in Range(priority) THEN "analogy"
    ELSE IF priority # <<>> THEN priority[1] ELSE "identity"

relation_for(left, right, priority) ==
    IF (left \in ROLE_LIKE \/ right \in ROLE_LIKE) /\ "role" \in Range(priority)
    THEN "role"
    ELSE IF left = right /\ "identity" \in Range(priority) THEN "identity"
    ELSE IF contains_colon(right) /\ "analogy" \in Range(priority) THEN "analogy"
    ELSE IF priority # <<>> THEN priority[1] ELSE "identity"

Mapping(left, right, relation, rationale) ==
    [left |-> left, right |-> right, relation |-> relation, rationale |-> rationale]

features_a_of(space_a) ==
    space_a.schemas
    \o (IF TruthyStr(space_a.frame_id) THEN <<space_a.frame_id>> ELSE <<>>)
    \o space_a.gates

\* features_b with the features of input A put first.
features_b_identity_first(space_a, space_b) ==
    features_a_of(space_a) \o space_b.metaphors \o axis_tokens(space_b.poles)

\* features_b without the features of input A.
features_b_without_a(space_a, space_b) ==
    space_b.metaphors \o axis_tokens(space_b.poles)

features_b_of(space_a, space_b) ==
    space_b.metaphors \o axis_tokens(space_b.poles) \o features_a_of(space_a)

\* The cap as the sum of the two counts instead of their maximum.
max_candidates_summed(space_a, rb) ==
    LET m == Len(space_a.schemas) + rb.constraints.max_blend_depth
    IN  IF m <= 0
        THEN (IF rb.constraints.max_blend_depth # 0
              THEN rb.constraints.max_blend_depth ELSE 1)
        ELSE m

\* The cap counting the gates with the schemas.
max_candidates_with_gates(space_a, rb) ==
    LET m == Max(Len(space_a.schemas) + Len(space_a.gates),
                 rb.constraints.max_blend_depth)
    IN  IF m <= 0
        THEN (IF rb.constraints.max_blend_depth # 0
              THEN rb.constraints.max_blend_depth ELSE 1)
        ELSE m

max_candidates_of(space_a, rb) ==
    LET m == Max(Len(space_a.schemas), rb.constraints.max_blend_depth)
    IN  IF m <= 0
        THEN (IF rb.constraints.max_blend_depth # 0
              THEN rb.constraints.max_blend_depth ELSE 1)
        ELSE m

\* The loop body without the test of the inverse against disallow_roles.
visit_pair_one_way(cx, left, right, scan) ==
    IF \/ right \in cx.non_projectable
       \/ <<left, right>> \in cx.disallow_roles
       \/ (<<left, right>> \notin cx.allow_roles
           /\ <<right, left>> \notin cx.allow_roles /\ left # right)
       \/ (IF <<left, right>> \in cx.allow_roles
           THEN <<left, right>> ELSE <<right, left>>) \in scan.seen
    THEN scan
    ELSE [seen |-> scan.seen \cup {IF <<left, right>> \in cx.allow_roles
                                   THEN <<left, right>> ELSE <<right, left>>},
          mappings |->
              Append(scan.mappings,
                     Mapping(left, right, relation_for(left, right, cx.priority),
                             IF <<left, right>> \in cx.allow_roles
                                \/ <<right, left>> \in cx.allow_roles
                             THEN "role_alignment" ELSE "identity_alignment")),
          returned |-> Len(scan.mappings) + 1 >= cx.max_candidates]

\* The loop body without the `if key in seen` test.
visit_pair_unseen(cx, left, right, scan) ==
    IF \/ right \in cx.non_projectable
       \/ <<left, right>> \in cx.disallow_roles
       \/ <<right, left>> \in cx.disallow_roles
       \/ (<<left, right>> \notin cx.allow_roles
           /\ <<right, left>> \notin cx.allow_roles /\ left # right)
    THEN scan
    ELSE [seen |-> scan.seen \cup {IF <<left, right>> \in cx.allow_roles
                                   THEN <<left, right>> ELSE <<right, left>>},
          mappings |->
              Append(scan.mappings,
                     Mapping(left, right, relation_for(left, right, cx.priority),
                             IF <<left, right>> \in cx.allow_roles
                                \/ <<right, left>> \in cx.allow_roles
                             THEN "role_alignment" ELSE "identity_alignment")),
          returned |-> Len(scan.mappings) + 1 >= cx.max_candidates]

\* The body of the inner loop of propose_mappings for one (left, right): the
\* `seen` set and the mappings after it, and whether the function returns.
visit_pair(cx, left, right, scan) ==
    IF \/ right \in cx.non_projectable
       \/ <<left, right>> \in cx.disallow_roles
       \/ <<right, left>> \in cx.disallow_roles
       \/ (<<left, right>> \notin cx.allow_roles
           /\ <<right, left>> \notin cx.allow_roles /\ left # right)
       \/ (IF <<left, right>> \in cx.allow_roles
           THEN <<left, right>> ELSE <<right, left>>) \in scan.seen
    THEN scan
    ELSE [seen |-> scan.seen \cup {IF <<left, right>> \in cx.allow_roles
                                   THEN <<left, right>> ELSE <<right, left>>},
          mappings |->
              Append(scan.mappings,
                     Mapping(left, right, relation_for(left, right, cx.priority),
                             IF <<left, right>> \in cx.allow_roles
                                \/ <<right, left>> \in cx.allow_roles
                             THEN "role_alignment" ELSE "identity_alignment")),
          returned |-> Len(scan.mappings) + 1 >= cx.max_candidates]

\* The nested loops of propose_mappings from (features_a[i], features_b[j]) on.
RECURSIVE scan_pairs(_, _, _, _)
scan_pairs(cx, i, j, scan) ==
    IF scan.returned \/ i > Len(cx.features_a) THEN scan.mappings
    ELSE IF cx.features_a[i] \in cx.non_projectable \/ j > Len(cx.features_b)
    THEN scan_pairs(cx, i + 1, 1, scan)
    ELSE scan_pairs(cx, i, j + 1,
                    visit_pair(cx, cx.features_a[i], cx.features_b[j], scan))

propose_mappings(space_a, space_b, rb) ==
    scan_pairs([allow_roles |-> Range(rb.counterpart_mapping.role_alignment.allow),
                disallow_roles |-> Range(rb.counterpart_mapping.role_alignment.disallow),
                non_projectable |->
                    Range(rb.counterpart_mapping.non_projectable_features),
                priority |-> rb.counterpart_mapping.priority,
                features_a |-> features_a_of(space_a),
                features_b |-> features_b_of(space_a, space_b),
                max_candidates |-> max_candidates_of(space_a, rb)],
               1, 1, [seen |-> {}, mappings |-> <<>>, returned |-> FALSE])

BlendStep(operator, relation, cost) ==
    [operator |-> operator, relation |-> relation, cost |-> cost]

allowed_ops_of(rb, frame_override) ==
    SelectSeq(rb.operators,
              LAMBDA op :
                  /\ op.id \notin Range(frame_override.disallowed_operators)
                  /\ \/ frame_override.operator_whitelist = <<>>
                     \/ op.id \in Range(frame_override.operator_whitelist))

prefer_relations_of(rb, frame_override) ==
    IF frame_override.prefer_relations # <<>>
    THEN Range(frame_override.prefer_relations)
    ELSE Range(rb.compression_preferences.prefer)

max_ops_of(rb, frame_override) ==
    OrInt(frame_override.max_ops_per_blend, rb.constraints.max_ops_per_blend)

\* The adjusted cost without the clamp at 0.
adjusted_cost_unclamped(operator, rb, frame_override) ==
    Get(rb.scoring.operator_costs, operator.id, operator.cost)
    + Get(frame_override.operator_cost_adjust, operator.id, 0)

adjusted_cost_of(operator, rb, frame_override) ==
    LET base_cost == Get(rb.scoring.operator_costs, operator.id, operator.cost)
    IN  Max(0, base_cost + Get(frame_override.operator_cost_adjust, operator.id, 0))

\* The ranking with the adjusted cost put before the usage count.
ranking_cost_first(operator, relation, usage, rb, frame_override) ==
    <<IF relation \in prefer_relations_of(rb, frame_override) THEN 0 ELSE 1,
      IF operator.safe THEN 0 ELSE 1,
      adjusted_cost_of(operator, rb, frame_override),
      Get(usage, operator.id, 0),
      str_rank(operator.id)>>

ranking_of(operator, relation, usage, rb, frame_override) ==
    <<IF relation \in prefer_relations_of(rb, frame_override) THEN 0 ELSE 1,
      IF operator.safe THEN 0 ELSE 1,
      Get(usage, operator.id, 0),
      adjusted_cost_of(operator, rb, frame_override),
      str_rank(operator.id)>>

\* Tuple comparison a < b.
RECURSIVE tuple_less(_, _)
tuple_less(a, b) ==
    IF a = <<>> \/ b = <<>> THEN a = <<>> /\ b # <<>>
    ELSE IF a[1] # b[1] THEN a[1] < b[1]
    ELSE tuple_less(Tail(a), Tail(b))

\* The candidates without the test of disallowed_relations.
candidates_not_refused(mapping, allowed_ops) ==
    SelectSeq(allowed_ops,
              LAMBDA operator :
                  \/ operator.allowed_relations = <<>>
                  \/ mapping.relation \in Range(operator.allowed_relations))

candidates_of(mapping, allowed_ops) ==
    SelectSeq(allowed_ops,
              LAMBDA operator :
                  /\ \/ operator.allowed_relations = <<>>
                     \/ mapping.relation \in Range(operator.allowed_relations)
                  /\ mapping.relation \notin Range(operator.disallowed_relations))

\* candidates.sort(key=ranking); candidates[0]: the index of the first of the
\* least ranked (the sort is stable).
least_ranked(ranks) ==
    CHOOSE k \in 1..Len(ranks) :
        /\ \A n \in 1..Len(ranks) : ~tuple_less(ranks[n], ranks[k])
        /\ \A n \in 1..(k - 1) : tuple_less(ranks[k], ranks[n])

step_of(operator, relation, rb, frame_override) ==
    BlendStep(operator.id, relation, adjusted_cost_of(operator, rb, frame_override))

chosen_of(candidates, relation, usage, rb, frame_override) ==
    step_of(candidates[least_ranked(
                [k \in 1..Len(candidates) |->
                    ranking_of(candidates[k], relation, usage, rb, frame_override)])],
            relation, rb, frame_override)

\* `if len(steps) >= max_ops: break`, with the off-by-one variant.
cap_reached_late(steps, max_ops) == Len(steps) > max_ops

\* The loop without its `break`.
cap_never_reached(steps, max_ops) == FALSE

cap_reached(steps, max_ops) == Len(steps) >= max_ops

\* usage[operator] = usage.get(operator, 0) + 1
counted(usage, operator) ==
    [id \in DOMAIN usage \cup {operator} |->
        IF id = operator THEN Get(usage, id, 0) + 1 ELSE usage[id]]

\* One pass of the loop body of apply_operators: steps and usage after it.
take_step(mapping, candidates, rb, frame_override, taken) ==
    IF candidates = <<>> THEN taken
    ELSE [steps |-> Append(taken.steps,
                           chosen_of(candidates, mapping.relation, taken.usage, rb,
                                     frame_override)),
          usage |-> counted(taken.usage,
                            chosen_of(candidates, mapping.relation, taken.usage, rb,
                                      frame_override).operator)]

\* The loop of apply_operators from mappings[k] on.
RECURSIVE select_steps(_, _, _, _, _, _)
select_steps(mappings, k, allowed_ops, rb, frame_override, taken) ==
    IF k > Len(mappings) \/ cap_reached(taken.steps, max_ops_of(rb, frame_override))
    THEN taken.steps
    ELSE select_steps(mappings, k + 1, allowed_ops, rb, frame_override,
                      take_step(mappings[k], candidates_of(mappings[k], allowed_ops),
                                rb, frame_override, taken))

step_costs(steps) == [k \in 1..Len(steps) |-> steps[k].cost]

costed(steps) == [steps |-> steps, total_cost |-> SumSeq(step_costs(steps))]

apply_operators(mappings, rb, frame_override) ==
    costed(IF allowed_ops_of(rb, frame_override) = <<>> THEN <<>>
           ELSE select_steps(mappings, 1, allowed_ops_of(rb, frame_override), rb,
                             frame_override, [steps |-> <<>>, usage |-> <<>>]))

\* A banned pair counts only when it has exactly two members.
is_pair(pair) == Len(pair) = 2

\* tuple(sorted((f, f))) in {tuple(sorted(pair))}: the pair is [f, f].
frame_compatibility_score(act, rb) ==
    IF ~TruthyStr(act.frame_id) THEN MetricOne
    ELSE IF \E k \in 1..Len(rb.constraints.banned_frame_pairs) :
                LET pair == rb.constraints.banned_frame_pairs[k]
                IN  is_pair(pair) /\ pair = <<act.frame_id, act.frame_id>>
         THEN 0
         ELSE MetricOne

\* The score counting the mappings of active schemas instead of the schemas
\* they cover, and without the cap at 1.
schema_alignment_per_mapping(act, mappings) ==
    IF act.schemas = <<>> THEN MetricOne
    ELSE (Len(SelectSeq(mappings, LAMBDA mapping : mapping.left \in Range(act.schemas)))
          * MetricOne) \div Cardinality(Range(act.schemas))

schema_alignment_score(act, mappings) ==
    IF act.schemas = <<>> THEN MetricOne
    ELSE LET covered == {mappings[k].left : k \in 1..Len(mappings)}
                        \cap Range(act.schemas)
         IN  Min(MetricOne,
                 (Cardinality(covered) * MetricOne) \div Cardinality(Range(act.schemas)))

metaphor_alignment_score(act, rb) ==
    IF \E k \in 1..Len(rb.constraints.banned_metaphor_pairs) :
           LET pair == rb.constraints.banned_metaphor_pairs[k]
           IN  is_pair(pair) /\ Range(pair) \subseteq Range(act.metaphors)
    THEN 0
    ELSE IF act.metaphors # <<>> THEN MetricOne ELSE MetricOne \div 2

minimality_score(steps, max_ops) ==
    IF steps = <<>> THEN MetricOne
    ELSE IF Len(steps) <= max_ops THEN MetricOne
    ELSE Max(0, MetricOne - (Len(steps) - max_ops) * (MetricOne \div 4))

\* The score without the special case of an empty mapping list.
novelty_cap_score_uniform(mappings) ==
    Min(MetricOne, (6 * MetricOne) \div 10 + Len(mappings) * (MetricOne \div 10))

novelty_cap_score(mappings) ==
    IF mappings = <<>> THEN MetricOne \div 2
    ELSE Min(MetricOne, (6 * MetricOne) \div 10 + Len(mappings) * (MetricOne \div 10))

\* active.poles.get(axis). A missing key gives None, for which <<>> stands:
\* None and "" are both falsy and `if not value` is the only use of the result.
poles_get(poles, axis) ==
    IF axis \in Axes(poles)
    THEN poles[CHOOSE k \in 1..Len(poles) : poles[k].axis = axis].value
    ELSE <<>>

polar_tag(axis) == "polar_conflict:" \o axis

\* The same without the explosion gate.
polar_conflict_on_ungated(act, policy) ==
    /\ (policy.axis \in Range(act.metaphors) \/ policy.axis \in Axes(act.poles))
    /\ poles_get(act.poles, policy.axis) # <<>>
    /\ Len(split_pole_values(poles_get(act.poles, policy.axis))) > 1

\* The same reading simultaneous_false: only a flagged policy penalises.
polar_conflict_on_flagged(act, policy) ==
    /\ (policy.axis \in Range(act.metaphors) \/ policy.axis \in Axes(act.poles))
    /\ poles_get(act.poles, policy.axis) # <<>>
    /\ Len(split_pole_values(poles_get(act.poles, policy.axis))) > 1
    /\ ~(policy.allow_if_explosion_fired /\ act.explosion_fired)
    /\ policy.simultaneous_false

\* Whether the loop body of _polar_conflict_penalty reaches the weight lookup.
polar_conflict_on(act, policy) ==
    /\ (policy.axis \in Range(act.metaphors) \/ policy.axis \in Axes(act.poles))
    /\ poles_get(act.poles, policy.axis) # <<>>
    /\ Len(split_pole_values(poles_get(act.poles, policy.axis))) > 1
    /\ ~(policy.allow_if_explosion_fired /\ act.explosion_fired)

polar_conflict_penalty(act, rb) ==
    LET weight == Get(rb.scoring.penalty, "polar_conflict", 0)
        hit == SelectSeq(rb.constraints.polar_conflicts,
                         LAMBDA policy : polar_conflict_on(act, policy) /\ weight # 0)
    IN  [total |-> Len(hit) * weight,
         penalties |-> [k \in 1..Len(hit) |-> polar_tag(hit[k].axis)]]

REWARD_NAMES ==
    <<"frame_compat", "schema_alignment", "metaphor_alignment", "minimality",
      "novelty_cap">>

\* A reward lookup whose default is a full weight.
reward_weight_default_one(rb, name) == Get(rb.scoring.reward, name, WeightOne)

reward_weight(rb, name) == Get(rb.scoring.reward, name, 0)

penalty_weight(rb, code) == Get(rb.scoring.penalty, code, 0)

\* One penalty branch of blend: what it adds to penalty_total and to penalties.
no_penalty == [total |-> 0, entries |-> <<>>]

penalty_of(reason, weight) ==
    IF weight # 0
    THEN [total |-> weight,
          entries |-> <<[reason |-> reason, weight |-> round4_weight(weight)]>>]
    ELSE no_penalty

pair_penalty_of(reason, pair, weight) ==
    IF weight # 0
    THEN [total |-> weight,
          entries |-> <<[reason |-> reason, pair |-> pair,
                         weight |-> round4_weight(weight)]>>]
    ELSE no_penalty

\* The depth test with >= in place of >.
depth_penalty_inclusive(rb, mappings) ==
    IF Len(mappings) >= rb.constraints.max_blend_depth
    THEN penalty_of("depth_overflow", penalty_weight(rb, "depth_overflow"))
    ELSE no_penalty

depth_penalty(rb, mappings) ==
    IF Len(mappings) > rb.constraints.max_blend_depth
    THEN penalty_of("depth_overflow", penalty_weight(rb, "depth_overflow"))
    ELSE no_penalty

\* The two branches tested in the other order.
mapping_penalty_swapped(act, rb, mappings, steps) ==
    IF TruthyStr(act.frame_id) /\ steps = <<>>
    THEN penalty_of("frame_incompatibility",
                    penalty_weight(rb, "frame_incompatibility"))
    ELSE IF mappings = <<>>
    THEN penalty_of("unknown_mapping", penalty_weight(rb, "unknown_mapping"))
    ELSE no_penalty

\* The unknown_mapping branch left out.
mapping_penalty_skipped(act, rb, mappings, steps) ==
    IF mappings # <<>> /\ TruthyStr(act.frame_id) /\ steps = <<>>
    THEN penalty_of("frame_incompatibility",
                    penalty_weight(rb, "frame_incompatibility"))
    ELSE no_penalty

\* The second branch without the test of the frame.
mapping_penalty_frameless(act, rb, mappings, steps) ==
    IF mappings = <<>>
    THEN penalty_of("unknown_mapping", penalty_weight(rb, "unknown_mapping"))
    ELSE IF steps = <<>>
    THEN penalty_of("frame_incompatibility",
                    penalty_weight(rb, "frame_incompatibility"))
    ELSE no_penalty

mapping_penalty(act, rb, mappings, steps) ==
    IF mappings = <<>>
    THEN penalty_of("unknown_mapping", penalty_weight(rb, "unknown_mapping"))
    ELSE IF TruthyStr(act.frame_id) /\ steps = <<>>
    THEN penalty_of("frame_incompatibility",
                    penalty_weight(rb, "frame_incompatibility"))
    ELSE no_penalty

\* The first pair of `pairs` that `hit` accepts; the loop breaks there, and
\* only when the weight is not zero.
first_banned(reason, pairs, hit(_), weight) ==
    LET matches == SelectSeq(pairs, hit)
    IN  IF matches = <<>> THEN no_penalty
        ELSE pair_penalty_of(reason, matches[1], weight)

\* The loop over banned_schema_pairs without its `break`.
banned_schema_penalty_every(act, rb) ==
    LET matches == SelectSeq(rb.constraints.banned_schema_pairs,
                             LAMBDA pair :
                                 is_pair(pair) /\ Range(pair) \subseteq Range(act.schemas))
    IN  IF penalty_weight(rb, "banned_pair") # 0
        THEN [total |-> Len(matches) * penalty_weight(rb, "banned_pair"),
              entries |-> [k \in 1..Len(matches) |->
                              [reason |-> "banned_schema_pair", pair |-> matches[k],
                               weight |-> round4_weight(
                                   penalty_weight(rb, "banned_pair"))]]]
        ELSE no_penalty

banned_schema_penalty(act, rb) ==
    first_banned("banned_schema_pair", rb.constraints.banned_schema_pairs,
                 LAMBDA pair : is_pair(pair) /\ Range(pair) \subseteq Range(act.schemas),
                 penalty_weight(rb, "banned_pair"))

banned_metaphor_penalty(act, rb) ==
    first_banned("banned_metaphor_pair", rb.constraints.banned_metaphor_pairs,
                 LAMBDA pair : is_pair(pair) /\ Range(pair) \subseteq Range(act.metaphors),
                 penalty_weight(rb, "banned_pair"))

banned_frame_penalty(act, rb) ==
    IF ~TruthyStr(act.frame_id) THEN no_penalty
    ELSE first_banned("banned_frame_pair", rb.constraints.banned_frame_pairs,
                      LAMBDA pair :
                          /\ is_pair(pair)
                          /\ act.frame_id \in Range(pair)
                          /\ (IF pair[2] = act.frame_id THEN pair[1] ELSE pair[2])
                             # act.frame_id,
                      penalty_weight(rb, "banned_pair"))

\* The polar branch writing one entry for all the conflicting axes.
polar_penalty_single_entry(act, rb) ==
    LET polar == polar_conflict_penalty(act, rb)
    IN  IF polar.total # 0
        THEN [total |-> polar.total,
              entries |-> <<[reason |-> polar.penalties[1],
                             weight |-> round4_weight(
                                 penalty_weight(rb, "polar_conflict"))]>>]
        ELSE no_penalty

polar_penalty(act, rb) ==
    LET polar == polar_conflict_penalty(act, rb)
    IN  IF polar.total # 0
        THEN [total |-> polar.total,
              entries |-> [k \in 1..Len(polar.penalties) |->
                              [reason |-> polar.penalties[k],
                               weight |-> round4_weight(
                                   penalty_weight(rb, "polar_conflict"))]]]
        ELSE no_penalty

\* penalty_total and penalties after the branches, in the order of the code.
penalties_of(parts) ==
    [total |-> SumSeq([k \in 1..Len(parts) |-> parts[k].total]),
     entries |-> parts[1].entries \o parts[2].entries \o parts[3].entries
                 \o parts[4].entries \o parts[5].entries \o parts[6].entries]

blend_penalties(act, rb, mappings, steps) ==
    penalties_of(<<depth_penalty(rb, mappings),
                   mapping_penalty(act, rb, mappings, steps),
                   banned_schema_penalty(act, rb),
                   banned_metaphor_penalty(act, rb),
                   banned_frame_penalty(act, rb),
                   polar_penalty(act, rb)>>)

reward_metrics_of(act, rb, mappings, steps, max_ops) ==
    [frame_compat |-> frame_compatibility_score(act, rb),
     schema_alignment |-> schema_alignment_score(act, mappings),
     metaphor_alignment |-> metaphor_alignment_score(act, rb),
     minimality |-> minimality_score(steps, max_ops),
     novelty_cap |-> novelty_cap_score(mappings)]

\* The exception a blend call ends with, "none" when it returns.
raised_of(mappings) ==
    IF \E k \in 1..Len(mappings) : mappings[k].relation = IndexError
    THEN IndexError ELSE "none"

\* `accepted = score_final >= accept_threshold`, with the strict variant.
accept_decision_strict(score_final, rb) ==
    score_final > rb.scoring.accept_threshold * MetricOne

accept_decision(score_final, rb) ==
    score_final >= rb.scoring.accept_threshold * MetricOne

\* The local variables of one blend call, statement group by statement
\* group: each operator adds the variables its statements assign to `run`,
\* the variables assigned before.
spaces_of(act, rb, spaces) ==
    [space_a |-> spaces.a,
     space_b |-> spaces.b,
     frame_override |-> ensure_override(act.frame_id, rb),
     max_ops |-> max_ops_of(rb, ensure_override(act.frame_id, rb))]

with_mappings(rb, run) ==
    run @@ [mappings |-> propose_mappings(run.space_a, run.space_b, rb)]

with_steps(applied, run) ==
    run @@ [steps |-> applied.steps, total_operator_cost |-> applied.total_cost]

reward_total_of(rb, reward_metrics) ==
    SumSeq([k \in 1..Len(REWARD_NAMES) |->
               reward_weight(rb, REWARD_NAMES[k]) * reward_metrics[REWARD_NAMES[k]]])

with_rewards(rb, reward_metrics, run) ==
    run @@ [reward_metrics |-> reward_metrics,
            reward_total |-> reward_total_of(rb, reward_metrics),
            score_pre_penalty |-> reward_total_of(rb, reward_metrics)
                                  - run.total_operator_cost * MetricOne]

with_penalties(penalized, run) ==
    run @@ [penalties |-> penalized.entries,
            penalty_total |-> penalized.total,
            score_final |-> run.score_pre_penalty - penalized.total * MetricOne]

with_decision(rb, run) ==
    run @@ [raised |-> raised_of(run.mappings),
            accepted |-> accept_decision(run.score_final, rb)]

mapped(act, rb) == with_mappings(rb, spaces_of(act, rb, build_spaces(act)))

applied_to(rb, run) ==
    with_steps(apply_operators(run.mappings, rb, run.frame_override), run)

rewarded(act, rb, run) ==
    with_rewards(rb, reward_metrics_of(act, rb, run.mappings, run.steps, run.max_ops),
                 run)

penalized_by(act, rb, run) ==
    with_penalties(blend_penalties(act, rb, run.mappings, run.steps), run)

blend_locals(act, rb) ==
    with_decision(rb,
        penalized_by(act, rb, rewarded(act, rb, applied_to(rb, mapped(act, rb)))))

\* The dict blend returns, from the locals of the call.
return_value(act, rb, run) ==
    [accepted |-> run.accepted,
     score_pre_penalty |-> round4_score(run.score_pre_penalty),
     score_final |-> round4_score(run.score_final),
     decisions |->
         [operators |-> [k \in 1..Len(run.steps) |-> run.steps[k].operator],
          mappings |-> Len(run.mappings)],
     audit |->
         [spaces |->
              [input_a |-> [schemas |-> run.space_a.schemas,
                            gates |-> run.space_a.gates,
                            frame_id |-> run.space_a.frame_id],
               input_b |-> [metaphors |-> run.space_b.metaphors,
                            poles |-> run.space_b.poles]],
          mappings |-> run.mappings,
          operators |-> [k \in 1..Len(run.steps) |->
                            [run.steps[k] EXCEPT !.cost = round4_weight(@)]],
          costs |-> [operator_total |-> round4_weight(run.total_operator_cost)],
          rewards |->
              [name \in Range(REWARD_NAMES) |->
                  [metric |-> round4_metric(run.reward_metrics[name]),
                   weight |-> round4_weight(reward_weight(rb, name)),
                   contribution |->
                       round4_score(reward_weight(rb, name) * run.reward_metrics[name])]],
          penalties |-> run.penalties,
          thresholds |-> [accept |-> round4_weight(rb.scoring.accept_threshold),
                          max_depth |-> rb.constraints.max_blend_depth,
                          max_ops |-> run.max_ops],
          flags |-> [explosion_fired |-> act.explosion_fired]]]

\* What the call ends with: the exception, or the returned dict.
outcome(act, rb, run) ==
    IF run.raised # "none"
    THEN [status |-> "raised", error |-> run.raised]
    ELSE [status |-> "returned", value |-> return_value(act, rb, run)]

blend(act, rb) == outcome(act, rb, blend_locals(act, rb))

(***************************************************************************)
(* The inputs of the model: selections and rulebooks                       *)
(***************************************************************************)
MaxListLen == 3

MaxCalls == 2

\* All sequences over S of length at most n.
RECURSIVE Lists(_, _)
Lists(S, n) ==
    IF n = 0 THEN {<<>>}
    ELSE LET shorter == Lists(S, n - 1)
         IN  shorter \cup {Append(l, x) : l \in shorter, x \in S}

SceneActive(schemas, metaphors, poles, gates, frame_id, explosion_fired) ==
    [schemas |-> schemas, metaphors |-> metaphors, poles |-> poles,
     gates |-> gates, frame_id |-> frame_id, explosion_fired |-> explosion_fired]

Pole(axis, value) == [axis |-> axis, value |-> value]

OperatorSpec(id, safe, cost, allowed_relations, disallowed_relations) ==
    [id |-> id, safe |-> safe, cost |-> cost,
     allowed_relations |-> allowed_relations,
     disallowed_relations |-> disallowed_relations]

PolarConflictRule(axis, simultaneous_false, allow_if_explosion_fired) ==
    [axis |-> axis, simultaneous_false |-> simultaneous_false,
     allow_if_explosion_fired |-> allow_if_explosion_fired]

\* The selection of the engine tests: two schemas, two metaphors, one pole,
\* one gate, the frame "journey".
SafeSelection ==
    SceneActive(<<"path", "boundary">>, <<"life_is_travel", "raw_cooked">>,
                <<Pole("raw_cooked", <<"r">>)>>, <<"bridge">>, "journey", FALSE)

JourneyOverride ==
    [frame_id |-> None,
     disallowed_operators |-> <<"completion">>,
     operator_whitelist |-> <<>>,
     prefer_relations |-> <<"role">>,
     max_ops_per_blend |-> <<>>,
     operator_cost_adjust |-> ("projection" :> (0 - 2000))]

BaseRules ==
    [vital_relations |-> <<"identity", "role", "analogy">>,
     operators |->
         <<OperatorSpec("projection", TRUE, 10000, <<>>, <<>>),
           OperatorSpec("composition", TRUE, 12000, <<>>, <<"analogy">>),
           OperatorSpec("completion", FALSE, 5000, <<"role", "analogy">>, <<>>)>>,
     counterpart_mapping |->
         [role_alignment |->
              [allow |-> << <<"path", "life_is_travel">>, <<"bridge", "boundary">>,
                            <<"container", "raw_cooked:r">> >>,
               disallow |-> << <<"journey", "journey">> >>],
          non_projectable_features |-> <<"hot_cold">>,
          priority |-> <<"role", "identity", "analogy">>],
     compression_preferences |-> [prefer |-> <<"identity", "role">>],
     constraints |->
         [max_blend_depth |-> 2,
          max_ops_per_blend |-> 2,
          banned_schema_pairs |-> << <<"path", "container">> >>,
          banned_metaphor_pairs |-> << <<"raw_cooked", "hot_cold">> >>,
          banned_frame_pairs |-> << <<"market", "ritual">> >>,
          polar_conflicts |-> <<PolarConflictRule("raw_cooked", TRUE, TRUE)>>],
     frame_overrides |-> ("journey" :> JourneyOverride),
     scoring |->
         [operator_costs |-> ("projection" :> 10000) @@ ("composition" :> 12000)
                             @@ ("completion" :> 5000),
          penalty |-> ("depth_overflow" :> 30000) @@ ("unknown_mapping" :> 30000)
                      @@ ("frame_incompatibility" :> 25000)
                      @@ ("banned_pair" :> 40000) @@ ("polar_conflict" :> 40000),
          reward |-> ("frame_compat" :> 25000) @@ ("schema_alignment" :> 25000)
                     @@ ("metaphor_alignment" :> 20000) @@ ("minimality" :> 15000)
                     @@ ("novelty_cap" :> 15000),
          accept_threshold |-> 60000]]

\* Rulebook variants: one part of BaseRules replaced.
WithOperators(rb, operators) == [rb EXCEPT !.operators = operators]

WithOverrides(rb, overrides) == [rb EXCEPT !.frame_overrides = overrides]

WithPriority(rb, priority) == [rb EXCEPT !.counterpart_mapping.priority = priority]

WithCaps(rb, depth, ops) ==
    [rb EXCEPT !.constraints.max_blend_depth = depth,
               !.constraints.max_ops_per_blend = ops]

WithPolar(rb, policies, penalty) ==
    [rb EXCEPT !.constraints.polar_conflicts = policies, !.scoring.penalty = penalty]

WithScoring(rb, reward, penalty, threshold) ==
    [rb EXCEPT !.scoring.reward = reward, !.scoring.penalty = penalty,
               !.scoring.accept_threshold = threshold]

WithBans(rb, schema_pairs, metaphor_pairs, frame_pairs) ==
    [rb EXCEPT !.constraints.banned_schema_pairs = schema_pairs,
               !.constraints.banned_metaphor_pairs = metaphor_pairs,
               !.constraints.banned_frame_pairs = frame_pairs]

\* A dict without one of its keys.
Without(table, key) == [k \in DOMAIN table \ {key} |-> table[k]]

\* Family 1: the lists of a selection, with duplicates and empty strings.
ListSelections ==
    {[SafeSelection EXCEPT !.schemas = l, !.frame_id = f] :
         l \in Lists({"path", "boundary", "container", ""}, MaxListLen),
         f \in {None, "journey"}}
    \cup {[SafeSelection EXCEPT !.metaphors = l] :
              l \in Lists({"life_is_travel", "raw_cooked", ""}, MaxListLen)}
    \cup {[SafeSelection EXCEPT !.gates = l] :
              l \in Lists({"bridge", "path", ""}, MaxListLen)}

\* Family 2: selections crossing every field.
CrossSelections ==
    {SceneActive(s, m, p, g, f, e) :
         s \in {<<>>, <<"path">>, <<"path", "boundary">>,
                <<"path", "boundary", "container">>},
         m \in {<<>>, <<"life_is_travel", "raw_cooked">>, <<"raw_cooked", "hot_cold">>},
         p \in {<<>>, <<Pole("raw_cooked", <<"r">>)>>,
                <<Pole("raw_cooked", <<"r", "|", "c">>)>>},
         g \in {<<>>, <<"bridge">>},
         f \in {None, "", "journey", "market"},
         e \in BOOLEAN}

SmallRulebooks ==
    {BaseRules,
     WithPriority(BaseRules, <<>>),
     WithBans(BaseRules,
              << <<"path">>, <<"boundary", "path">>, <<"path", "container">> >>,
              << <<"hot_cold", "raw_cooked">>, <<"life_is_travel", "raw_cooked">>,
                 <<"raw_cooked", "life_is_travel">> >>,
              << <<"journey", "journey">>, <<"market", "journey">>,
                 <<"journey", "ritual">> >>)}

\* Family 3: rulebooks crossing operators, overrides, caps and priority.
OperatorLists ==
    {<<>>,
     BaseRules.operators,
     <<OperatorSpec("completion", FALSE, 5000, <<>>, <<>>),
       OperatorSpec("projection", TRUE, 10000, <<"identity">>, <<>>)>>,
     <<OperatorSpec("elaboration", TRUE, 0, <<>>, <<"role">>)>>,
     <<OperatorSpec("projection", TRUE, 10000, <<"identity">>, <<>>),
       OperatorSpec("composition", TRUE, 12000, <<>>, <<"analogy">>),
       OperatorSpec("completion", FALSE, 5000, <<"identity", "role">>, <<>>)>>}

OverrideTables ==
    {<<>>,
     "journey" :> JourneyOverride,
     "journey" :> [JourneyOverride EXCEPT !.operator_whitelist = <<"projection">>,
                                          !.max_ops_per_blend = <<1>>,
                                          !.operator_cost_adjust =
                                              "projection" :> (0 - 15000)],
     "journey" :> [JourneyOverride EXCEPT
                       !.frame_id = "journey",
                       !.disallowed_operators =
                           <<"projection", "composition", "completion", "elaboration">>],
     "journey" :> [JourneyOverride EXCEPT !.disallowed_operators = <<>>,
                                          !.prefer_relations = <<>>,
                                          !.operator_cost_adjust = <<>>]}

MaxOpsCap == 3

OperatorRulebooks ==
    {WithCaps(WithPriority(WithOverrides(WithOperators(BaseRules, ops), ov), pr), d, n) :
         ops \in OperatorLists, ov \in OverrideTables,
         pr \in {<<>>, <<"role", "identity", "analogy">>, <<"analogy", "identity">>},
         d \in 1..2, n \in 1..MaxOpsCap}

OperatorSelections ==
    {SafeSelection,
     [SafeSelection EXCEPT !.frame_id = None],
     [SafeSelection EXCEPT !.schemas = <<"path", "boundary", "container">>,
                           !.gates = <<"bridge", "gate">>],
     [SafeSelection EXCEPT !.schemas = <<"container">>, !.gates = <<>>,
                           !.frame_id = "market"],
     SceneActive(<<>>, <<>>, <<>>, <<>>, None, FALSE)}

\* Family 4: pole values, polar policies and the polar weight.
PoleChars == {"c", "r", "|"}

PoleValueSelections ==
    {[SafeSelection EXCEPT !.poles = <<Pole("raw_cooked", v)>>, !.metaphors = m] :
         v \in Lists(PoleChars, MaxValueLen) \cup {<<"r", " ", "r">>, <<"c", ",", " ", "r">>},
         m \in {<<>>, <<"raw_cooked">>}}

PolarSelections ==
    {[SafeSelection EXCEPT !.poles = <<Pole("raw_cooked", v)>>, !.metaphors = m,
                           !.explosion_fired = e] :
         v \in {<<>>, <<"r">>, <<"r", "|", "c">>, <<"r", " ", "r">>},
         m \in {<<>>, <<"raw_cooked">>},
         e \in BOOLEAN}
    \cup {[SafeSelection EXCEPT !.poles = <<Pole(ab[1], v), Pole(ab[2], w)>>,
                                !.explosion_fired = e] :
              ab \in {<<"raw_cooked", "hot_cold">>, <<"hot_cold", "raw_cooked">>},
              v \in {<<"r">>, <<"r", "|", "c">>}, w \in {<<>>, <<"c", ",", "r">>},
              e \in BOOLEAN}
    \cup {[SafeSelection EXCEPT !.poles = <<>>, !.metaphors = <<"hot_cold">>,
                                !.explosion_fired = e] : e \in BOOLEAN}

PolarRulebooks ==
    {WithPolar(BaseRules, policies, penalty) :
         policies \in
             {<<>>,
              <<PolarConflictRule("raw_cooked", TRUE, TRUE)>>,
              <<PolarConflictRule("raw_cooked", FALSE, FALSE)>>,
              <<PolarConflictRule("hot_cold", TRUE, TRUE),
                PolarConflictRule("raw_cooked", FALSE, TRUE)>>,
              <<PolarConflictRule("raw_cooked", TRUE, FALSE),
                PolarConflictRule("hot_cold", FALSE, TRUE)>>},
         penalty \in
             {BaseRules.scoring.penalty,
              Without(BaseRules.scoring.penalty, "polar_conflict"),
              [BaseRules.scoring.penalty EXCEPT !["polar_conflict"] = 0]}}

PoleValueRulebooks ==
    {WithPolar(BaseRules, policies, penalty) :
         policies \in
             {<<>>,
              <<PolarConflictRule("raw_cooked", TRUE, TRUE)>>,
              <<PolarConflictRule("raw_cooked", FALSE, FALSE)>>},
         penalty \in
             {BaseRules.scoring.penalty,
              [BaseRules.scoring.penalty EXCEPT !["polar_conflict"] = 0]}}

\* Family 5: scoring tables with missing keys, and thresholds.
RewardTables ==
    {BaseRules.scoring.reward,
     <<>>,
     "frame_compat" :> 59999,
     Without(BaseRules.scoring.reward, "novelty_cap"),
     ("schema_alignment" :> 50000) @@ ("novelty_cap" :> 50000)}

PenaltyTables ==
    {BaseRules.scoring.penalty,
     <<>>,
     "unknown_mapping" :> 1000,
     Without(BaseRules.scoring.penalty, "unknown_mapping"),
     ("banned_pair" :> 40000) @@ ("unknown_mapping" :> 0)
         @@ ("frame_incompatibility" :> 25000)}

ScoringRulebooks ==
    {WithScoring(rb, reward, penalty, threshold) :
         rb \in {BaseRules,
                 WithOperators(BaseRules, <<>>),
                 WithBans(BaseRules, << <<"boundary", "path">> >>,
                          << <<"life_is_travel", "raw_cooked">> >>,
                          << <<"market", "journey">> >>)},
         reward \in RewardTables, penalty \in PenaltyTables,
         threshold \in {0, 50000, 60000, 100000}}

ScoringSelections ==
    {SafeSelection,
     [SafeSelection EXCEPT !.poles = <<Pole("raw_cooked", <<"r", "|", "c">>)>>],
     [SafeSelection EXCEPT !.schemas = <<"path", "boundary", "container">>],
     SceneActive(<<>>, <<>>, <<>>, <<>>, None, FALSE),
     SceneActive(<<"hot_cold">>, <<"life_is_travel">>, <<>>, <<>>, None, FALSE),
     SceneActive(<<>>, <<>>, <<>>, <<>>, "journey", TRUE)}

\* Family 6: alignment policies, vital relations, priority and depth.
WithAlignment(rb, allow, disallow, non_projectable) ==
    [rb EXCEPT !.counterpart_mapping.role_alignment.allow = allow,
               !.counterpart_mapping.role_alignment.disallow = disallow,
               !.counterpart_mapping.non_projectable_features = non_projectable]

WithRelations(rb, vital_relations, priority) ==
    [rb EXCEPT !.vital_relations = vital_relations,
               !.counterpart_mapping.priority = priority,
               !.compression_preferences.prefer =
                   SelectSeq(@, LAMBDA id : id \in Range(vital_relations))]

AlignmentSelections ==
    {SceneActive(s, mp[1], mp[2], g, f, FALSE) :
         s \in {<<>>, <<"path", "boundary">>, <<"path", "boundary", "goal">>,
                <<"container", "path">>, <<"container", "hot_cold">>},
         mp \in {<<<<>>, <<>>>>,
                 <<<<"life_is_travel", "raw_cooked">>,
                   <<Pole("raw_cooked", <<"r">>)>>>>},
         g \in {<<>>, <<"path", "bridge">>},
         f \in {None, "journey"}}

\* The priority lists name vital relations only, as validate_blend_rules
\* requires.
RelationTables ==
    {<<BaseRules.vital_relations, BaseRules.counterpart_mapping.priority>>,
     <<BaseRules.vital_relations, <<>> >>,
     <<<<"role", "analogy">>, <<>> >>,
     <<<<"role", "analogy">>, <<"analogy">> >>}

AlignmentRulebooks ==
    {WithCaps(WithRelations(WithAlignment(BaseRules, allow, disallow, np),
                            rel[1], rel[2]),
              d, 2) :
         allow \in {<<>>,
                    BaseRules.counterpart_mapping.role_alignment.allow,
                    << <<"path", "boundary">>, <<"bridge", "boundary">>,
                       <<"container", "hot_cold">>, <<"goal", "raw_cooked:r">> >>},
         disallow \in {<<>>,
                       << <<"boundary", "bridge">>, <<"journey", "journey">> >>,
                       << <<"path", "path">>, <<"boundary", "boundary">> >>},
         np \in {<<>>, <<"hot_cold", "life_is_travel">>},
         rel \in RelationTables,
         d \in {1, 3}}

Inputs ==
    ((ListSelections \cup CrossSelections) \X SmallRulebooks)
    \cup (OperatorSelections \X OperatorRulebooks)
    \cup (PoleValueSelections \X PoleValueRulebooks)
    \cup (PolarSelections \X PolarRulebooks)
    \cup (ScoringSelections \X ScoringRulebooks)
    \cup (AlignmentSelections \X AlignmentRulebooks)

(***************************************************************************)
(* The engine and its caller                                               *)
(***************************************************************************)
NoResult == [status |-> "none"]

Init ==
    /\ \E input \in Inputs : active = input[1] /\ rules = input[2]
    /\ pc = "ready"
    /\ locals = <<>>
    /\ result = NoResult
    /\ prev = <<>>
    /\ calls = 0

\* One call blend(active, rules).
Blend ==
    /\ pc = "ready"
    /\ locals' = <<blend_locals(active, rules)>>
    /\ result' = outcome(active, rules, locals'[1])
    /\ pc' = "done"
    /\ calls' = calls + 1
    /\ active' = selection_after(active)
    /\ rules' = [rules EXCEPT !.frame_overrides = overrides_after(active.frame_id, rules)]
    /\ UNCHANGED prev

Remembered == <<[active |-> active, locals |-> locals, result |-> result]>>

\* The caller asks again with the same selection and rulebook.
Resubmit ==
    /\ pc = "done"
    /\ calls < MaxCalls
    /\ prev' = Remembered
    /\ pc' = "ready"
    /\ UNCHANGED <<active, rules, locals, result, calls>>

\* The caller asks again after the explosion has fired.
FireExplosion ==
    /\ pc = "done"
    /\ calls < MaxCalls
    /\ ~active.explosion_fired
    /\ active' = [active EXCEPT !.explosion_fired = TRUE]
    /\ prev' = Remembered
    /\ pc' = "ready"
    /\ UNCHANGED <<rules, locals, result, calls>>

Next == Blend \/ Resubmit \/ FireExplosion

Spec == Init /\ [][Next]_vars

(***************************************************************************)
(* Properties                                                              *)
(***************************************************************************)
\* A call has returned its dict; `run` are its locals, `out` the dict.
Returned == pc = "done" /\ result.status = "returned"

run == locals[1]

out == result.value

Reasons(penalties) == {penalties[k].reason : k \in 1..Len(penalties)}

\* The key of scoring.penalty a penalty reason is weighted by.
ReasonCode(reason) ==
    IF reason \in {"banned_schema_pair", "banned_metaphor_pair", "banned_frame_pair"}
    THEN "banned_pair"
    ELSE IF reason \in {polar_tag(axis) : axis \in AxisIds} THEN "polar_conflict"
    ELSE reason

\* The weights scoring.penalty gives the entries of a penalty list.
ListedWeight(penalties) ==
    SumSeq([k \in 1..Len(penalties) |->
               Get(rules.scoring.penalty, ReasonCode(penalties[k].reason), 0)])

\* The tokens of a pole value, read off the value itself: the maximal runs of
\* characters that are no separators.
RECURSIVE Join(_, _, _)
Join(value, i, j) == IF i > j THEN "" ELSE value[i] \o Join(value, i + 1, j)

DistinctTokens(value) ==
    {Join(value, i, j) : <<i, j>> \in
        {sp \in (1..Len(value)) \X (1..Len(value)) :
            /\ sp[1] <= sp[2]
            /\ \A k \in sp[1]..sp[2] : value[k] \notin Separators
            /\ (sp[1] = 1 \/ value[sp[1] - 1] \in Separators)
            /\ (sp[2] = Len(value) \/ value[sp[2] + 1] \in Separators)}}

PoleValueOf(axis) ==
    active.poles[CHOOSE k \in 1..Len(active.poles) : active.poles[k].axis = axis].value

MultiToken(axis) ==
    axis \in Axes(active.poles) /\ Cardinality(DistinctTokens(PoleValueOf(axis))) > 1

PolicyOf(axis) ==
    rules.constraints.polar_conflicts[
        CHOOSE k \in 1..Len(rules.constraints.polar_conflicts) :
            rules.constraints.polar_conflicts[k].axis = axis]

HasPolicy(axis) == axis \in Axes(rules.constraints.polar_conflicts)

PolarWeight == Get(rules.scoring.penalty, "polar_conflict", 0)

\* The max_ops in force: the active frame's override when it sets one, else
\* the global cap.
EffectiveMaxOps ==
    IF /\ active.frame_id \in DOMAIN rules.frame_overrides
       /\ rules.frame_overrides[active.frame_id].max_ops_per_blend # <<>>
    THEN rules.frame_overrides[active.frame_id].max_ops_per_blend[1]
    ELSE rules.constraints.max_ops_per_blend

\* C1: the number of BlendSteps apply_operators produces, which blend reports
\* as decisions.operators, never exceeds the effective max_ops (the frame
\* override's max_ops_per_blend when the active frame has one, otherwise
\* constraints.max_ops_per_blend), the value reported as audit.thresholds.max_ops.
C1_StepsWithinMaxOps ==
    Returned =>
        /\ Len(run.steps) <= EffectiveMaxOps
        /\ Len(out.decisions.operators) <= EffectiveMaxOps
        /\ out.audit.thresholds.max_ops = EffectiveMaxOps

\* C1 witness: an override cap below the global one cuts the steps short of
\* the mappings.
C1_Witness ==
    /\ Returned
    /\ active.frame_id \in DOMAIN rules.frame_overrides
    /\ rules.frame_overrides[active.frame_id].max_ops_per_blend # <<>>
    /\ EffectiveMaxOps < rules.constraints.max_ops_per_blend
    /\ Len(run.mappings) > EffectiveMaxOps
    /\ Len(run.steps) = EffectiveMaxOps

\* The second of two calls that differ only in explosion_fired, false then true.
AfterExplosion ==
    /\ Returned
    /\ prev # <<>>
    /\ prev[1].result.status = "returned"
    /\ active.explosion_fired
    /\ prev[1].active = [active EXCEPT !.explosion_fired = FALSE]

before == prev[1].result.value

\* The axes explosion gating is about: a pole value of more than one token and
\* a policy with allow_if_explosion_fired.
GatedAxes ==
    {axis \in Axes(active.poles) :
        HasPolicy(axis) /\ PolicyOf(axis).allow_if_explosion_fired /\ MultiToken(axis)}

SameBesidesPenalties ==
    /\ out.audit.mappings = before.audit.mappings
    /\ out.audit.operators = before.audit.operators
    /\ out.decisions = before.decisions
    /\ out.audit.rewards = before.audit.rewards
    /\ out.audit.costs = before.audit.costs
    /\ out.score_pre_penalty = before.score_pre_penalty

\* C3 as stated: for a gated axis, the penalty lists of the two calls differ
\* by exactly the single entry polar_conflict:<axis>, present when
\* explosion_fired is false and absent when it is true; everything else is the same.
C3_SingleEntryRemoved ==
    AfterExplosion =>
        \A axis \in GatedAxes :
            /\ polar_tag(axis) \in Reasons(before.audit.penalties)
            /\ polar_tag(axis) \notin Reasons(out.audit.penalties)
            /\ out.audit.penalties =
                   SelectSeq(before.audit.penalties,
                             LAMBDA entry : entry.reason # polar_tag(axis))
            /\ SameBesidesPenalties

\* C3 amended: toggling explosion_fired from false to true removes exactly the
\* entries polar_conflict:<axis> of the gated axes, one per such axis (they are
\* present before only when the polar_conflict weight is not zero), and changes
\* no other penalty entry, mapping, operator step, reward or score_pre_penalty.
C3_GatedEntriesRemoved ==
    AfterExplosion =>
        /\ out.audit.penalties =
               SelectSeq(before.audit.penalties,
                         LAMBDA entry :
                             entry.reason \notin {polar_tag(axis) : axis \in GatedAxes})
        /\ \A axis \in GatedAxes :
               /\ polar_tag(axis) \notin Reasons(out.audit.penalties)
               /\ PolarWeight # 0 => polar_tag(axis) \in Reasons(before.audit.penalties)
        /\ SameBesidesPenalties

\* C3 witness: two gated axes lose their two entries at once.
C3_Witness ==
    /\ AfterExplosion
    /\ Cardinality(GatedAxes) = 2
    /\ PolarWeight # 0
    /\ Len(before.audit.penalties) = Len(out.audit.penalties) + 2

UnknownMappingWeight == Get(rules.scoring.penalty, "unknown_mapping", 0)

\* C4: when no mapping is proposed and the unknown_mapping weight is positive,
\* audit.penalties has an unknown_mapping entry and its weight is part of what
\* is subtracted from score_pre_penalty to give score_final.
C4_UnknownMappingPenalised ==
    (Returned /\ run.mappings = <<>> /\ UnknownMappingWeight > 0) =>
        LET others == SelectSeq(out.audit.penalties,
                                LAMBDA entry : entry.reason # "unknown_mapping")
        IN  /\ Cardinality({k \in 1..Len(out.audit.penalties) :
                   out.audit.penalties[k].reason = "unknown_mapping"}) = 1
            /\ [reason |-> "unknown_mapping",
                weight |-> round4_weight(UnknownMappingWeight)]
                   \in Range(out.audit.penalties)
            /\ run.score_pre_penalty - run.score_final =
                   (UnknownMappingWeight + ListedWeight(others)) * MetricOne

\* C4 witness: no mapping, and another penalty next to unknown_mapping.
C4_Witness ==
    /\ Returned
    /\ run.mappings = <<>>
    /\ UnknownMappingWeight > 0
    /\ "unknown_mapping" \in Reasons(out.audit.penalties)
    /\ Len(out.audit.penalties) >= 2

\* C5 as stated: a blend without mappings is never accepted when the
\* unknown_mapping weight is positive.
C5_EmptyNeverAccepted ==
    (Returned /\ run.mappings = <<>> /\ UnknownMappingWeight > 0) => ~out.accepted

NoNegativePenalty ==
    \A code \in DOMAIN rules.scoring.penalty : rules.scoring.penalty[code] >= 0

\* C5 amended: a blend without mappings is rejected whenever score_pre_penalty
\* less the (positive) unknown_mapping weight is below the accept threshold,
\* no penalty weight being negative; it can be accepted otherwise.
C5_EmptyRejectedBelowThreshold ==
    (/\ Returned
     /\ run.mappings = <<>>
     /\ UnknownMappingWeight > 0
     /\ NoNegativePenalty
     /\ run.score_pre_penalty - UnknownMappingWeight * MetricOne
            < rules.scoring.accept_threshold * MetricOne)
        => ~out.accepted

\* C5 witness: the rewards alone reach the threshold, the unknown_mapping
\* weight takes the score below it, and the blend is rejected.
C5_Witness ==
    /\ Returned
    /\ run.mappings = <<>>
    /\ UnknownMappingWeight > 0
    /\ run.score_pre_penalty >= rules.scoring.accept_threshold * MetricOne
    /\ run.score_pre_penalty - UnknownMappingWeight * MetricOne
           < rules.scoring.accept_threshold * MetricOne
    /\ ~out.accepted

\* The operators the active frame's override leaves, read off the rulebook.
PermittedOperators ==
    IF active.frame_id \in DOMAIN rules.frame_overrides
    THEN LET override == rules.frame_overrides[active.frame_id]
         IN  {k \in 1..Len(rules.operators) :
                 /\ rules.operators[k].id \notin Range(override.disallowed_operators)
                 /\ \/ override.operator_whitelist = <<>>
                    \/ rules.operators[k].id \in Range(override.operator_whitelist)}
    ELSE 1..Len(rules.operators)

BannedActive(pairs, actives) ==
    \E k \in 1..Len(pairs) : Len(pairs[k]) = 2 /\ Range(pairs[k]) \subseteq Range(actives)

NamedPenalty(code, reason) ==
    Get(rules.scoring.penalty, code, 0) # 0 => reason \in Reasons(out.audit.penalties)

CompleteResult ==
    /\ DOMAIN out = {"accepted", "score_pre_penalty", "score_final", "decisions", "audit"}
    /\ out.accepted \in BOOLEAN
    /\ out.score_pre_penalty \in Int
    /\ out.score_final \in Int
    /\ DOMAIN out.decisions = {"operators", "mappings"}
    /\ out.decisions.mappings = Len(out.audit.mappings)
    /\ DOMAIN out.audit = {"spaces", "mappings", "operators", "costs", "rewards",
                           "penalties", "thresholds", "flags"}
    /\ DOMAIN out.audit.rewards = Range(REWARD_NAMES)

\* C6: every call returns a complete result and raises nothing; a frame without
\* override entry, an override that leaves no operator, no permitted pairing,
\* active banned pairs and an empty priority list each show only as a penalty
\* entry or a zero-valued branch.
C6_BlendTotal ==
    pc = "done" =>
        /\ result.status = "returned"
        /\ CompleteResult
        /\ (active.frame_id # None /\ active.frame_id \notin DOMAIN rules.frame_overrides)
               => /\ run.frame_override = FrameOverride(active.frame_id)
                  /\ out.audit.thresholds.max_ops = rules.constraints.max_ops_per_blend
        /\ PermittedOperators = {}
               => /\ out.decisions.operators = <<>>
                  /\ out.audit.costs.operator_total = 0
                  /\ (run.mappings # <<>> /\ TruthyStr(active.frame_id))
                         => NamedPenalty("frame_incompatibility", "frame_incompatibility")
        /\ run.mappings = <<>>
               => /\ out.decisions.operators = <<>>
                  /\ NamedPenalty("unknown_mapping", "unknown_mapping")
        /\ BannedActive(rules.constraints.banned_schema_pairs, active.schemas)
               => NamedPenalty("banned_pair", "banned_schema_pair")
        /\ BannedActive(rules.constraints.banned_metaphor_pairs, active.metaphors)
               => /\ NamedPenalty("banned_pair", "banned_metaphor_pair")
                  /\ out.audit.rewards["metaphor_alignment"].metric = 0
        /\ rules.counterpart_mapping.priority = <<>>
               => \A k \in 1..Len(run.mappings) : run.mappings[k].relation = "identity"

\* C6 witness: a frame without override entry, an empty priority list and an
\* active banned schema pair in one call that proposes mappings and returns.
C6_Witness ==
    /\ Returned
    /\ TruthyStr(active.frame_id)
    /\ active.frame_id \notin DOMAIN rules.frame_overrides
    /\ rules.counterpart_mapping.priority = <<>>
    /\ run.mappings # <<>>
    /\ BannedActive(rules.constraints.banned_schema_pairs, active.schemas)
    /\ "banned_schema_pair" \in Reasons(out.audit.penalties)

PresentRewards ==
    SelectSeq(REWARD_NAMES, LAMBDA name : name \in DOMAIN rules.scoring.reward)

\* C7: a reward metric whose name scoring.reward lacks contributes 0 to
\* score_pre_penalty, and a violation whose code scoring.penalty lacks adds no
\* penalty entry and changes neither penalty_total nor score_final.
C7_MissingWeightIsZero ==
    Returned =>
        /\ \A name \in Range(REWARD_NAMES) \ DOMAIN rules.scoring.reward :
               /\ out.audit.rewards[name].weight = 0
               /\ out.audit.rewards[name].contribution = 0
        /\ run.score_pre_penalty =
               SumSeq([k \in 1..Len(PresentRewards) |->
                          rules.scoring.reward[PresentRewards[k]]
                          * run.reward_metrics[PresentRewards[k]]])
               - run.total_operator_cost * MetricOne
        /\ \A reason \in Reasons(out.audit.penalties) :
               ReasonCode(reason) \in DOMAIN rules.scoring.penalty
        /\ run.penalty_total = ListedWeight(out.audit.penalties)
        /\ run.score_final = run.score_pre_penalty - run.penalty_total * MetricOne

\* C7 witness: a reward table without novelty_cap and a penalty table without
\* unknown_mapping, in a call that proposes no mapping.
C7_Witness ==
    /\ Returned
    /\ rules.scoring.reward # <<>>
    /\ "novelty_cap" \notin DOMAIN rules.scoring.reward
    /\ run.mappings = <<>>
    /\ rules.scoring.penalty # <<>>
    /\ "unknown_mapping" \notin DOMAIN rules.scoring.penalty
    /\ "unknown_mapping" \notin Reasons(out.audit.penalties)

ThresholdDecision ==
    out.accepted <=> (run.score_pre_penalty - run.penalty_total * MetricOne
                          >= rules.scoring.accept_threshold * MetricOne)

\* C8 as stated: accepted is true exactly when score_final reaches
\* accept_threshold, so an accepted result reports score_final >=
\* audit.thresholds.accept and a rejected one score_final < audit.thresholds.accept.
C8_ReportedStrictlyBelow ==
    Returned =>
        /\ ThresholdDecision
        /\ out.accepted => out.score_final >= out.audit.thresholds.accept
        /\ ~out.accepted => out.score_final < out.audit.thresholds.accept

\* C8 amended: accepted is true exactly when score_final reaches
\* accept_threshold; an accepted result reports score_final >=
\* audit.thresholds.accept and a rejected one score_final <= audit.thresholds.accept
\* (both are reported rounded to 4 decimals, which can make them equal).
C8_ReportedNotAbove ==
    Returned =>
        /\ ThresholdDecision
        /\ out.accepted => out.score_final >= out.audit.thresholds.accept
        /\ ~out.accepted => out.score_final <= out.audit.thresholds.accept

\* C8 witness: a rejected result whose reported score equals the reported
\* threshold.
C8_Witness ==
    /\ Returned
    /\ ~out.accepted
    /\ run.score_final < rules.scoring.accept_threshold * MetricOne
    /\ out.score_final = out.audit.thresholds.accept

FirstIndex(list, x) == CHOOSE i \in 1..Len(list) : list[i] = x /\ \A j \in 1..(i - 1) : list[j] # x

\* `built` holds each non-empty item of `given` once, in the order of first
\* occurrence.
DedupedFrom(built, given) ==
    /\ Range(built) = Range(given) \ {""}
    /\ \A i, j \in 1..Len(built) : i # j => built[i] # built[j]
    /\ \A i, j \in 1..Len(built) :
           i < j => FirstIndex(given, built[i]) < FirstIndex(given, built[j])

\* C9: space_a.schemas, space_a.gates and space_b.metaphors hold every distinct
\* identifier (non-empty string) of the input exactly once, in the order of
\* first occurrence, and deduplicating a built list again leaves it unchanged.
C9_SpacesDeduplicated ==
    Returned =>
        /\ DedupedFrom(out.audit.spaces.input_a.schemas, active.schemas)
        /\ DedupedFrom(out.audit.spaces.input_a.gates, active.gates)
        /\ DedupedFrom(out.audit.spaces.input_b.metaphors, active.metaphors)
        /\ dedupe_preserve(run.space_a.schemas) = run.space_a.schemas
        /\ dedupe_preserve(run.space_a.gates) = run.space_a.gates
        /\ dedupe_preserve(run.space_b.metaphors) = run.space_b.metaphors

\* C9 witness: an identifier repeated after another one, built into two entries.
C9_Witness ==
    /\ Returned
    /\ Len(active.schemas) = 3
    /\ active.schemas[1] = active.schemas[3]
    /\ active.schemas[1] # active.schemas[2]
    /\ "" \notin Range(active.schemas)
    /\ run.space_a.schemas = <<active.schemas[1], active.schemas[2]>>

PolarAxes == Range(active.metaphors) \cup Axes(active.poles)

Gated(axis) ==
    HasPolicy(axis) /\ PolicyOf(axis).allow_if_explosion_fired /\ active.explosion_fired

\* C10 as stated: polar_conflict:<axis> is recorded for every axis present in
\* the selection's metaphors or poles whose pole value has more than one
\* distinct token, unless its policy allows it after the explosion and the
\* explosion has fired; an axis with a single-token value never gets it.
C10_EveryMultiTokenAxis ==
    Returned =>
        \A axis \in PolarAxes \cap AxisIds :
            /\ (MultiToken(axis) /\ ~Gated(axis))
                   => polar_tag(axis) \in Reasons(out.audit.penalties)
            /\ ~MultiToken(axis) => polar_tag(axis) \notin Reasons(out.audit.penalties)

\* C10 amended: polar_conflict:<axis> is recorded exactly for the axes that have
\* a policy entry in constraints.polar_conflicts and a pole value of more than
\* one distinct token, the polar_conflict weight not being zero, unless the
\* policy allows it after the explosion and the explosion has fired; one entry
\* per such axis, in the order of the policies.
C10_PolicyAxesOnly ==
    Returned =>
        /\ \A axis \in AxisIds :
               polar_tag(axis) \in Reasons(out.audit.penalties)
                   <=> /\ HasPolicy(axis)
                       /\ PolarWeight # 0
                       /\ MultiToken(axis)
                       /\ ~Gated(axis)
        /\ \A i, j \in 1..Len(out.audit.penalties) :
               (i # j /\ ReasonCode(out.audit.penalties[i].reason) = "polar_conflict")
                   => out.audit.penalties[i].reason # out.audit.penalties[j].reason

\* C10 witness: a penalised axis next to a multi-token axis that has no policy.
C10_Witness ==
    /\ Returned
    /\ \E axis \in AxisIds : polar_tag(axis) \in Reasons(out.audit.penalties)
    /\ \E axis \in AxisIds : MultiToken(axis) /\ ~HasPolicy(axis)

\* The enumeration of propose_mappings, read off the spaces and the policy.
FeaturesA ==
    run.space_a.schemas
    \o (IF run.space_a.frame_id \notin {None, ""}
        THEN <<run.space_a.frame_id>> ELSE <<>>)
    \o run.space_a.gates

FeaturesB == run.space_b.metaphors \o axis_tokens(run.space_b.poles) \o FeaturesA

AllowRoles == Range(rules.counterpart_mapping.role_alignment.allow)

DisallowRoles == Range(rules.counterpart_mapping.role_alignment.disallow)

NonProjectable == Range(rules.counterpart_mapping.non_projectable_features)

PermittedUnder(left, right, non_projectable, disallow, allow) ==
    /\ left \notin non_projectable
    /\ right \notin non_projectable
    /\ <<left, right>> \notin disallow
    /\ <<right, left>> \notin disallow
    /\ (<<left, right>> \in allow \/ <<right, left>> \in allow \/ left = right)

PermittedPair(left, right) ==
    PermittedUnder(left, right, NonProjectable, DisallowRoles, AllowRoles)

KeyUnder(left, right, allow) ==
    IF <<left, right>> \in allow THEN <<left, right>> ELSE <<right, left>>

MatchedKey(left, right) == KeyUnder(left, right, AllowRoles)

Positions == (1..Len(FeaturesA)) \X (1..Len(FeaturesB))

\* Position p is enumerated before position q: left-major, right-minor.
Before(p, q) == p[1] < q[1] \/ (p[1] = q[1] /\ p[2] < q[2])

PermittedAt(p) == PermittedPair(FeaturesA[p[1]], FeaturesB[p[2]])

KeyAt(p) == MatchedKey(FeaturesA[p[1]], FeaturesB[p[2]])

\* The positions whose pair is permitted and whose key no earlier permitted
\* pair has matched.
DiscoveredIn(features_a, features_b) ==
    LET non_projectable == NonProjectable
        disallow == DisallowRoles
        allow == AllowRoles
        permitted ==
            {p \in (1..Len(features_a)) \X (1..Len(features_b)) :
                PermittedUnder(features_a[p[1]], features_b[p[2]],
                               non_projectable, disallow, allow)}
        key == [p \in permitted |->
                    KeyUnder(features_a[p[1]], features_b[p[2]], allow)]
    IN  {p \in permitted : \A q \in permitted : Before(q, p) => key[q] # key[p]}

Discovered == DiscoveredIn(FeaturesA, FeaturesB)

\* The keys the permitted pairs match: one discovered pairing each.
MatchedKeysIn(features_a, features_b, non_projectable, disallow, allow) ==
    {KeyUnder(features_a[p[1]], features_b[p[2]], allow) :
        p \in {q \in (1..Len(features_a)) \X (1..Len(features_b)) :
                  PermittedUnder(features_a[q[1]], features_b[q[2]],
                                 non_projectable, disallow, allow)}}

MatchedKeys ==
    MatchedKeysIn(FeaturesA, FeaturesB, NonProjectable, DisallowRoles, AllowRoles)

DepthWeight == Get(rules.scoring.penalty, "depth_overflow", 0)

\* Every distinct schema is the left feature of a discovered pairing.
EverySchemaPairs ==
    \A i \in 1..Len(run.space_a.schemas) : \E p \in Discovered : p[1] = i

BareSelection ==
    active.schemas = <<>> /\ active.metaphors = <<>> /\ active.frame_id = None

\* The metric 0.5 as audit.rewards reports it, in units of 1/10000.
HalfMetric == round4_metric(MetricOne \div 2)

\* C12 as stated: for every selection with empty schemas, empty metaphors and
\* no frame_id, whatever its gates and poles, and every rulebook, audit.mappings
\* is empty, the unknown_mapping penalty is applied and the novelty_cap metric
\* is 0.5.
C12_BareSelectionUnmapped ==
    Returned /\ BareSelection =>
        /\ out.audit.mappings = <<>>
        /\ "unknown_mapping" \in Reasons(out.audit.penalties)
        /\ out.audit.rewards["novelty_cap"].metric = HalfMetric

\* C12 amended: for every selection with empty schemas, empty metaphors, no
\* frame_id and no gates, whatever its poles, and every rulebook, audit.mappings
\* is empty and the novelty_cap metric is 0.5, and the unknown_mapping penalty
\* is applied when its weight is not zero.
C12_BareGatelessUnmapped ==
    Returned /\ BareSelection /\ active.gates = <<>> =>
        /\ out.audit.mappings = <<>>
        /\ out.audit.rewards["novelty_cap"].metric = HalfMetric
        /\ UnknownMappingWeight # 0
               => "unknown_mapping" \in Reasons(out.audit.penalties)

\* C12 witness: such a selection with a pole, under a rulebook that weighs
\* unknown_mapping.
C12_Witness ==
    /\ Returned
    /\ BareSelection
    /\ active.gates = <<>>
    /\ active.poles # <<>>
    /\ UnknownMappingWeight # 0
    /\ "unknown_mapping" \in Reasons(out.audit.penalties)

C14_MappingsPermitted ==
    Returned =>
        \A k \in 1..Len(out.audit.mappings) :
            PermittedPair(out.audit.mappings[k].left, out.audit.mappings[k].right)

\* C14 witness: mappings were proposed while an enumerated pair, allowed one
\* way round, was refused for its inverse in disallow, and another for a
\* non-projectable side.
C14_Witness ==
    /\ Returned
    /\ out.audit.mappings # <<>>
    /\ \E p \in Positions :
           /\ <<FeaturesA[p[1]], FeaturesB[p[2]]>> \in AllowRoles
           /\ <<FeaturesB[p[2]], FeaturesA[p[1]]>> \in DisallowRoles
    /\ \E p \in Positions :
           /\ <<FeaturesA[p[1]], FeaturesB[p[2]]>> \in AllowRoles
           /\ FeaturesB[p[2]] \in NonProjectable

VitalRelations == Range(rules.vital_relations)

\* C15: the relation of every Mapping of propose_mappings, and so of every
\* BlendStep, is one of the ids listed in the rulebook's vital_relations.
C15_RelationsVital ==
    Returned =>
        /\ \A k \in 1..Len(out.audit.mappings) :
               out.audit.mappings[k].relation \in VitalRelations
        /\ \A k \in 1..Len(out.audit.operators) :
               out.audit.operators[k].relation \in VitalRelations

\* max(len(space_a.schemas), constraints.max_blend_depth), at least 1.
MappingBound ==
    Max(1, Max(Len(run.space_a.schemas), rules.constraints.max_blend_depth))

\* C16: propose_mappings never returns more than
\* max(len(space_a.schemas), constraints.max_blend_depth) mappings, that bound
\* being at least 1, and it stops enumerating as soon as the bound is reached:
\* pairings the enumeration would report later are left out.
C16_MappingsCapped ==
    Returned =>
        /\ Len(run.mappings) <= MappingBound
        /\ Len(run.mappings) = Min(MappingBound, Cardinality(MatchedKeys))

\* C16 witness: the enumeration holds more reportable pairings than the
\* bound, and the result stops at the bound.
C16_Witness ==
    /\ Returned
    /\ Cardinality(Discovered) > MappingBound
    /\ Len(run.mappings) = MappingBound
    /\ MappingBound > 1

\* The mappings are the first pairings of the discovery `found`, in its order.
PrefixOfDiscovery(mappings, found, features_a, features_b) ==
    /\ Len(mappings) = Min(MappingBound, Cardinality(found))
    /\ \A p \in found :
           LET rank == Cardinality({q \in found : Before(q, p)}) + 1
           IN  rank <= Len(mappings) =>
                   /\ mappings[rank].left = features_a[p[1]]
                   /\ mappings[rank].right = features_b[p[2]]

\* C17: the mapping list is in discovery order: it is the capped prefix of
\* the permitted, key-deduplicated pairs enumerated left-major over
\* features_a = schemas, frame_id if present, gates, and right-minor over
\* features_b = metaphors, axis tokens, features_a; so for i < j the left of
\* mapping i never comes after the left of mapping j in features_a.
C17_DiscoveryOrder ==
    Returned =>
        /\ PrefixOfDiscovery(run.mappings, Discovered, FeaturesA, FeaturesB)
        /\ \A i, j \in 1..Len(run.mappings) :
               i < j => FirstIndex(FeaturesA, run.mappings[i].left)
                            <= FirstIndex(FeaturesA, run.mappings[j].left)

\* C17 witness: one left feature mapped first to a metaphor and then to a
\* feature of input A, followed by a mapping of a later left feature.
C17_Witness ==
    /\ Returned
    /\ Len(run.mappings) >= 3
    /\ run.mappings[1].left = run.mappings[2].left
    /\ run.mappings[1].right \in Range(run.space_b.metaphors)
    /\ run.mappings[2].right \in Range(FeaturesA)
    /\ run.mappings[3].left # run.mappings[2].left

KeyOfMapping(mapping) == MatchedKey(mapping.left, mapping.right)

\* C18: each alignment key contributes at most one Mapping: the matched key
\* is left-right when that is in role_alignment.allow and right-left
\* otherwise, no two mappings of one result have the same matched key, and so
\* no (left, right) pair is reported twice, even when a label occurs several
\* times among schemas, frame_id and gates.
C18_OneMappingPerKey ==
    Returned =>
        \A i, j \in 1..Len(run.mappings) :
            i # j =>
                /\ KeyOfMapping(run.mappings[i]) # KeyOfMapping(run.mappings[j])
                /\ <<run.mappings[i].left, run.mappings[i].right>>
                       # <<run.mappings[j].left, run.mappings[j].right>>

\* C18 witness: a label occurs twice among the features of input A, and
\* before the last mapping was reported a permitted pair met a key matched
\* before.
C18_Witness ==
    /\ Returned
    /\ run.mappings # <<>>
    /\ \E i, j \in 1..Len(FeaturesA) : i # j /\ FeaturesA[i] = FeaturesA[j]
    /\ \E p \in Positions, q \in Discovered :
           /\ PermittedAt(p)
           /\ p \notin Discovered
           /\ Before(p, q)
           /\ run.mappings[Len(run.mappings)].left = FeaturesA[q[1]]
           /\ run.mappings[Len(run.mappings)].right = FeaturesB[q[2]]

Priority == rules.counterpart_mapping.priority

RelationNames(mappings) == {mappings[k].relation : k \in 1..Len(mappings)}

\* C19: the relation of a mapping follows a fixed precedence: role if left or
\* right is role-like and role is in priority; otherwise identity if left
\* equals right and identity is in priority; otherwise analogy if right
\* contains ":" and analogy is in priority; otherwise the first entry of
\* priority, or identity when priority is empty. The rationale is
\* role_alignment exactly when left-right or right-left is in
\* role_alignment.allow, and identity_alignment otherwise.
C19_RelationPrecedence ==
    Returned =>
        \A k \in 1..Len(run.mappings) :
            LET left == run.mappings[k].left
                right == run.mappings[k].right
                role_like == left \in ROLE_LIKE \/ right \in ROLE_LIKE
            IN  /\ run.mappings[k].relation =
                       (IF role_like /\ "role" \in Range(Priority) THEN "role"
                        ELSE IF left = right /\ "identity" \in Range(Priority)
                        THEN "identity"
                        ELSE IF contains_colon(right) /\ "analogy" \in Range(Priority)
                        THEN "analogy"
                        ELSE IF Priority # <<>> THEN Priority[1]
                        ELSE "identity")
                /\ run.mappings[k].rationale \in {"role_alignment", "identity_alignment"}
                /\ run.mappings[k].rationale = "role_alignment"
                       <=> (<<left, right>> \in AllowRoles
                            \/ <<right, left>> \in AllowRoles)

\* C19 witness: one result with a role, an identity and an analogy mapping,
\* the identity one between two equal role-free labels, and both rationales.
C19_Witness ==
    /\ Returned
    /\ RelationNames(run.mappings) = {"role", "identity", "analogy"}
    /\ \E k \in 1..Len(run.mappings) :
           /\ run.mappings[k].relation = "identity"
           /\ run.mappings[k].rationale = "identity_alignment"
    /\ \E k \in 1..Len(run.mappings) :
           /\ run.mappings[k].relation = "analogy"
           /\ run.mappings[k].rationale = "role_alignment"

\* Operator k of the rulebook takes the relation.
TakesRelation(k, relation) ==
    /\ \/ rules.operators[k].allowed_relations = <<>>
       \/ relation \in Range(rules.operators[k].allowed_relations)
    /\ relation \notin Range(rules.operators[k].disallowed_relations)

\* C20: every operator apply_operators chooses is permitted: it is in the
\* rulebook's operator list, not in the override's disallowed_operators, in
\* operator_whitelist when that is non-empty, its allowed_relations is empty
\* or holds the step's relation, and the step's relation is not in its
\* disallowed_relations. When the override leaves no operator, there are no
\* steps and the total cost is 0.
C20_OperatorsPermitted ==
    Returned =>
        /\ \A s \in 1..Len(run.steps) :
               \E k \in PermittedOperators :
                   /\ rules.operators[k].id = run.steps[s].operator
                   /\ TakesRelation(k, run.steps[s].relation)
        /\ PermittedOperators = {} =>
               /\ run.steps = <<>>
               /\ run.total_operator_cost = 0
               /\ out.audit.operators = <<>>
               /\ out.audit.costs.operator_total = 0

\* C20 witness: steps were chosen while the override had removed an operator
\* and a remaining operator refused the relation of a step.
C20_Witness ==
    /\ Returned
    /\ run.steps # <<>>
    /\ PermittedOperators # 1..Len(rules.operators)
    /\ \E s \in 1..Len(run.steps), k \in PermittedOperators :
           run.steps[s].relation \in Range(rules.operators[k].disallowed_relations)

\* The override of the active frame as the rulebook holds it, the empty
\* override when the frame has no entry.
ActiveOverride ==
    IF active.frame_id \in DOMAIN rules.frame_overrides
    THEN rules.frame_overrides[active.frame_id]
    ELSE FrameOverride(None)

\* The operators mapping m may be given: permitted by the override and taking
\* the mapping's relation.
Candidates(m) ==
    {k \in PermittedOperators : TakesRelation(k, run.mappings[m].relation)}

\* The mappings that have a candidate, and the n-th of them in order.
Served == {m \in 1..Len(run.mappings) : Candidates(m) # {}}

ServedAt(n) == CHOOSE m \in Served : Cardinality({x \in Served : x < m}) = n - 1

PreferredRelations ==
    IF ActiveOverride.prefer_relations # <<>>
    THEN Range(ActiveOverride.prefer_relations)
    ELSE Range(rules.compression_preferences.prefer)

\* max(0, base + delta) for operator k of the rulebook.
CostOf(k) ==
    Max(0, Get(rules.scoring.operator_costs, rules.operators[k].id,
               rules.operators[k].cost)
           + Get(ActiveOverride.operator_cost_adjust, rules.operators[k].id, 0))

\* How often the steps before step j chose the operator.
UsedBefore(id, j) == Cardinality({s \in 1..(j - 1) : run.steps[s].operator = id})

\* The tuple operator k is ranked by for mapping m when step j is chosen.
Rank(k, m, j) ==
    <<IF run.mappings[m].relation \in PreferredRelations THEN 0 ELSE 1,
      IF rules.operators[k].safe THEN 0 ELSE 1,
      UsedBefore(rules.operators[k].id, j),
      CostOf(k),
      rules.operators[k].id>>

\* Lexicographic order of two such tuples, ids in code-point order.
RankBefore(r, s) ==
    \E i \in 1..5 :
        /\ \A n \in 1..(i - 1) : r[n] = s[n]
        /\ IF i = 5 THEN str_rank(r[5]) < str_rank(s[5]) ELSE r[i] < s[i]

OperatorOf(step) ==
    CHOOSE k \in 1..Len(rules.operators) : rules.operators[k].id = step.operator

\* base + delta for operator k, before the clamp.
RawCost(k) ==
    (IF rules.operators[k].id \in DOMAIN rules.scoring.operator_costs
     THEN rules.scoring.operator_costs[rules.operators[k].id]
     ELSE rules.operators[k].cost)
    + (IF rules.operators[k].id \in DOMAIN ActiveOverride.operator_cost_adjust
       THEN ActiveOverride.operator_cost_adjust[rules.operators[k].id]
       ELSE 0)

\* C22: the cost of every step is max(0, base + delta), base the operator's
\* entry in scoring.operator_costs or else the operator's own cost, delta the
\* override's operator_cost_adjust entry or else 0; so no step cost is
\* negative, and the total operator cost is the sum of the step costs.
C22_StepCosts ==
    Returned =>
        /\ \A s \in 1..Len(run.steps) :
               /\ LET raw == RawCost(OperatorOf(run.steps[s]))
                  IN  run.steps[s].cost = (IF raw > 0 THEN raw ELSE 0)
               /\ run.steps[s].cost >= 0
               /\ out.audit.operators[s].cost = round4_weight(run.steps[s].cost)
        /\ run.total_operator_cost =
               SumSeq([s \in 1..Len(run.steps) |-> run.steps[s].cost])
        /\ out.audit.costs.operator_total = round4_weight(run.total_operator_cost)

\* C22 witness: a step whose base + delta is negative costs 0.
C22_Witness ==
    /\ Returned
    /\ \E s \in 1..Len(run.steps) :
           /\ RawCost(OperatorOf(run.steps[s])) < 0
           /\ run.steps[s].cost = 0

FrameSet == active.frame_id # None /\ active.frame_id # ""

FrameIncompatibilityWeight == Get(rules.scoring.penalty, "frame_incompatibility", 0)

\* How many entries of a penalty list have the reason.
CountReason(penalties, reason) ==
    Cardinality({k \in 1..Len(penalties) : penalties[k].reason = reason})

\* C23: with a non-zero frame_incompatibility weight, audit.penalties holds a
\* frame_incompatibility entry exactly when a frame is set, at least one
\* mapping exists and no operator step was produced; the entry is never
\* recorded together with unknown_mapping, and never when no frame is set.
C23_FrameIncompatibility ==
    Returned =>
        /\ FrameIncompatibilityWeight # 0 =>
               ("frame_incompatibility" \in Reasons(out.audit.penalties)
                    <=> (FrameSet /\ run.mappings # <<>> /\ run.steps = <<>>))
        /\ CountReason(out.audit.penalties, "frame_incompatibility") <= 1
        /\ ~({"frame_incompatibility", "unknown_mapping"}
                 \subseteq Reasons(out.audit.penalties))
        /\ ~FrameSet => "frame_incompatibility" \notin Reasons(out.audit.penalties)

\* C23 witness: a frame is set, the rulebook has operators, mappings exist,
\* none of them got a step, and the penalty is recorded.
C23_Witness ==
    /\ Returned
    /\ FrameSet
    /\ rules.operators # <<>>
    /\ run.mappings # <<>>
    /\ run.steps = <<>>
    /\ [reason |-> "frame_incompatibility",
        weight |-> round4_weight(FrameIncompatibilityWeight)]
           \in Range(out.audit.penalties)

BannedWeight == Get(rules.scoring.penalty, "banned_pair", 0)

\* When a banned pair of each category is active.
SchemaPairActive(pair) == Len(pair) = 2 /\ Range(pair) \subseteq Range(active.schemas)

MetaphorPairActive(pair) ==
    Len(pair) = 2 /\ Range(pair) \subseteq Range(active.metaphors)

FramePairActive(pair) ==
    /\ Len(pair) = 2
    /\ FrameSet
    /\ active.frame_id \in Range(pair)
    /\ Range(pair) # {active.frame_id}

ActivePairs(pairs, IsActive(_)) == {k \in 1..Len(pairs) : IsActive(pairs[k])}

EntriesFor(reason) ==
    SelectSeq(out.audit.penalties, LAMBDA entry : entry.reason = reason)

\* One category: at most one entry, present exactly when a pair is active and
\* the banned_pair weight is not zero, and naming the first active pair.
FirstMatchOnly(reason, pairs, IsActive(_)) ==
    /\ Len(EntriesFor(reason)) <= 1
    /\ Len(EntriesFor(reason)) = 1
           <=> (ActivePairs(pairs, IsActive) # {} /\ BannedWeight # 0)
    /\ Len(EntriesFor(reason)) = 1 =>
           /\ \E k \in ActivePairs(pairs, IsActive) :
                  /\ \A n \in ActivePairs(pairs, IsActive) : k <= n
                  /\ EntriesFor(reason)[1].pair = pairs[k]
           /\ EntriesFor(reason)[1].weight = round4_weight(BannedWeight)

\* C24: audit.penalties holds at most one banned_schema_pair, at most one
\* banned_metaphor_pair and at most one banned_frame_pair entry, each naming
\* the first active pair of its category in rulebook order, also when several
\* banned pairs of the category are active (a frame pair is active when it
\* holds the active frame and another frame).
C24_FirstBannedPairOnly ==
    Returned =>
        /\ FirstMatchOnly("banned_schema_pair", rules.constraints.banned_schema_pairs,
                          SchemaPairActive)
        /\ FirstMatchOnly("banned_metaphor_pair",
                          rules.constraints.banned_metaphor_pairs, MetaphorPairActive)
        /\ FirstMatchOnly("banned_frame_pair", rules.constraints.banned_frame_pairs,
                          FramePairActive)

\* C24 witness: two banned pairs of every category are active and each
\* category has its one entry.
C24_Witness ==
    /\ Returned
    /\ Cardinality(ActivePairs(rules.constraints.banned_schema_pairs,
                               SchemaPairActive)) >= 2
    /\ Cardinality(ActivePairs(rules.constraints.banned_metaphor_pairs,
                               MetaphorPairActive)) >= 2
    /\ Cardinality(ActivePairs(rules.constraints.banned_frame_pairs,
                               FramePairActive)) >= 2
    /\ {"banned_schema_pair", "banned_metaphor_pair", "banned_frame_pair"}
           \subseteq Reasons(out.audit.penalties)

PolarReasons == {polar_tag(axis) : axis \in AxisIds}

\* C25: score_pre_penalty is the sum over the five reward metrics of weight
\* times metric, less the total operator cost, and score_pre_penalty less
\* score_final is the sum of the weights of the entries of audit.penalties,
\* which has one entry per applied penalty and one per conflicting axis; the
\* reported scores, metrics, weights and costs are these quantities rounded
\* to 4 decimals.
C25_ScoresFromAudit ==
    Returned =>
        /\ run.score_pre_penalty =
               SumSeq([k \in 1..Len(REWARD_NAMES) |->
                          Get(rules.scoring.reward, REWARD_NAMES[k], 0)
                          * run.reward_metrics[REWARD_NAMES[k]]])
               - SumSeq([s \in 1..Len(run.steps) |-> run.steps[s].cost]) * MetricOne
        /\ run.score_pre_penalty - run.score_final
               = ListedWeight(out.audit.penalties) * MetricOne
        /\ \A i, j \in 1..Len(out.audit.penalties) :
               i # j => out.audit.penalties[i].reason # out.audit.penalties[j].reason
        /\ \A k \in 1..Len(out.audit.penalties) :
               /\ Get(rules.scoring.penalty,
                      ReasonCode(out.audit.penalties[k].reason), 0) # 0
               /\ out.audit.penalties[k].weight =
                      round4_weight(Get(rules.scoring.penalty,
                                        ReasonCode(out.audit.penalties[k].reason), 0))
        /\ \A name \in Range(REWARD_NAMES) :
               /\ out.audit.rewards[name].metric =
                      round4_metric(run.reward_metrics[name])
               /\ out.audit.rewards[name].weight =
                      round4_weight(Get(rules.scoring.reward, name, 0))
        /\ out.score_pre_penalty = round4_score(run.score_pre_penalty)
        /\ out.score_final = round4_score(run.score_final)

\* C25 witness: operator steps with a cost, two polar_conflict entries and
\* every reward weight present.
C25_Witness ==
    /\ Returned
    /\ run.total_operator_cost > 0
    /\ Cardinality(Reasons(out.audit.penalties) \cap PolarReasons) = 2
    /\ \A name \in Range(REWARD_NAMES) : Get(rules.scoring.reward, name, 0) > 0
    /\ run.score_final < run.score_pre_penalty

\* The distinct entries of active.schemas that are the left of a mapping.
CoveredSchemas ==
    {schema \in Range(active.schemas) :
        \E k \in 1..Len(run.mappings) : run.mappings[k].left = schema}

\* C26: each of the five reward metrics lies in [0, 1]; schema_alignment is
\* the number of distinct active schemas that are the left side of some
\* mapping divided by the number of distinct active schemas, and 1 when
\* active.schemas is empty.
C26_MetricsInUnitInterval ==
    Returned =>
        /\ \A name \in Range(REWARD_NAMES) :
               /\ 0 <= run.reward_metrics[name]
               /\ run.reward_metrics[name] <= MetricOne
               /\ 0 <= out.audit.rewards[name].metric
               /\ out.audit.rewards[name].metric <= 10000
        /\ active.schemas = <<>> => run.reward_metrics.schema_alignment = MetricOne
        /\ active.schemas # <<>> =>
               run.reward_metrics.schema_alignment * Cardinality(Range(active.schemas))
                   = Cardinality(CoveredSchemas) * MetricOne

\* C26 witness: a schema list with a repeated entry of which some but not
\* all distinct entries are the left of a mapping, one of them several times.
C26_Witness ==
    /\ Returned
    /\ Len(active.schemas) > Cardinality(Range(active.schemas))
    /\ 0 < run.reward_metrics.schema_alignment
    /\ run.reward_metrics.schema_alignment < MetricOne
    /\ \E i, j \in 1..Len(run.mappings) :
           /\ i # j
           /\ run.mappings[i].left = run.mappings[j].left
           /\ run.mappings[i].left \in Range(active.schemas)

\* C27: in every returned result the minimality metric is 1: the steps are
\* capped at the max_ops the metric is computed with, so its overflow branch
\* is never taken and its reward is the full minimality weight.
C27_MinimalityIsOne ==
    Returned =>
        /\ run.reward_metrics.minimality = MetricOne
        /\ out.audit.rewards["minimality"].metric = 10000
        /\ out.audit.rewards["minimality"].contribution =
               round4_weight(Get(rules.scoring.reward, "minimality", 0))
        /\ Len(run.steps) <= out.audit.thresholds.max_ops

\* C27 witness: more mappings have a candidate than max_ops allows, and the
\* steps stop at max_ops.
C27_Witness ==
    /\ Returned
    /\ Cardinality(Served) > out.audit.thresholds.max_ops
    /\ Len(run.steps) = out.audit.thresholds.max_ops
    /\ Get(rules.scoring.reward, "minimality", 0) > 0
    /\ run.reward_metrics.minimality = MetricOne

\* The distinct non-empty entries of active.schemas.
DistinctSchemas == Range(active.schemas) \ {""}

\* C28: with max_blend_depth >= 1, a depth_overflow entry is recorded only
\* when the number of distinct non-empty active schemas is strictly greater
\* than max_blend_depth: a selection with at most max_blend_depth distinct
\* schemas gets at most max_blend_depth mappings and no depth_overflow,
\* whatever its gates, metaphors and poles.
C28_DepthOverflowNeedsSchemas ==
    (Returned /\ rules.constraints.max_blend_depth >= 1) =>
        /\ "depth_overflow" \in Reasons(out.audit.penalties)
               => Cardinality(DistinctSchemas) > rules.constraints.max_blend_depth
        /\ Cardinality(DistinctSchemas) <= rules.constraints.max_blend_depth
               => Len(run.mappings) <= rules.constraints.max_blend_depth

\* C28 witness: no more distinct schemas than max_blend_depth, gates and
\* metaphors that offer more pairings than max_blend_depth, and a result with
\* max_blend_depth mappings and no depth_overflow although its weight is set.
C28_Witness ==
    /\ Returned
    /\ DepthWeight # 0
    /\ Cardinality(DistinctSchemas) <= rules.constraints.max_blend_depth
    /\ active.gates # <<>>
    /\ active.metaphors # <<>>
    /\ active.poles # <<>>
    /\ Cardinality(Discovered) > rules.constraints.max_blend_depth
    /\ Len(run.mappings) = rules.constraints.max_blend_depth
    /\ "depth_overflow" \notin Reasons(out.audit.penalties)

\* The features of input A, read off the selection: the non-empty schemas and
\* gates, and the frame when one is set.
ActiveFeatures ==
    ((Range(active.schemas) \cup Range(active.gates)) \ {""})
    \cup (IF FrameSet THEN {active.frame_id} ELSE {})

\* A feature whose pairing with itself is refused.
Blocked(x) == x \in NonProjectable \/ <<x, x>> \in DisallowRoles

\* C29: when some feature x of input A is not in non_projectable_features
\* and x-x is not in role_alignment.disallow, propose_mappings returns at
\* least one mapping; so the mapping list is empty, and unknown_mapping is
\* recorded, only when input A has no feature or every feature is blocked.
C29_SelfPairingAvailable ==
    Returned =>
        /\ (\E x \in ActiveFeatures : ~Blocked(x)) => run.mappings # <<>>
        /\ run.mappings = <<>> => \A x \in ActiveFeatures : Blocked(x)
        /\ "unknown_mapping" \in Reasons(out.audit.penalties)
               => \A x \in ActiveFeatures : Blocked(x)

\* C29 witness: nothing is in role_alignment.allow, two features are blocked
\* and one is not, and the only mapping pairs that feature with itself.
C29_Witness ==
    /\ Returned
    /\ AllowRoles = {}
    /\ active.metaphors # <<>>
    /\ Cardinality({x \in ActiveFeatures : Blocked(x)}) >= 2
    /\ \E x \in ActiveFeatures :
           /\ ~Blocked(x)
           /\ Len(run.mappings) = 1
           /\ run.mappings[1].left = x
           /\ run.mappings[1].right = x

\* The axis has no pole value: no entry in poles, or an empty one.
NoPoleValue(axis) == axis \notin Axes(active.poles) \/ PoleValueOf(axis) = <<>>

\* The rulebook with the simultaneous_false flags of its policies set to `flags`.
WithFlags(flags) ==
    [rules EXCEPT !.constraints.polar_conflicts =
        [k \in 1..Len(rules.constraints.polar_conflicts) |->
            [rules.constraints.polar_conflicts[k] EXCEPT
                !.simultaneous_false = flags[k]]]]

\* C30: polar_conflict:<axis> is recorded only for an axis with an entry in
\* constraints.polar_conflicts and a non-empty value in the selection's
\* poles: never for a multi-token value on an axis without policy, never for
\* an axis named in metaphors that has no pole value; and the result is the
\* same whatever the simultaneous_false flags of the policies are.
C30_PolarNeedsPolicyAndValue ==
    Returned =>
        /\ \A axis \in AxisIds :
               /\ polar_tag(axis) \in Reasons(out.audit.penalties)
                      => (HasPolicy(axis) /\ ~NoPoleValue(axis))
               /\ (MultiToken(axis) /\ ~HasPolicy(axis))
                      => polar_tag(axis) \notin Reasons(out.audit.penalties)
               /\ (axis \in Range(active.metaphors) /\ NoPoleValue(axis))
                      => polar_tag(axis) \notin Reasons(out.audit.penalties)
        /\ \A flags \in [1..Len(rules.constraints.polar_conflicts) -> BOOLEAN] :
               WithFlags(flags) # rules => blend(active, WithFlags(flags)) = result

\* C30 witness: an axis whose policy has simultaneous_false unset is
\* penalised, next to an axis that has a policy and is named in metaphors
\* but has no pole value.
C30_Witness ==
    /\ Returned
    /\ \E axis \in AxisIds :
           /\ polar_tag(axis) \in Reasons(out.audit.penalties)
           /\ ~PolicyOf(axis).simultaneous_false
    /\ \E axis \in AxisIds :
           /\ HasPolicy(axis)
           /\ axis \in Range(active.metaphors)
           /\ NoPoleValue(axis)
           /\ polar_tag(axis) \notin Reasons(out.audit.penalties)
====
